---------------------------- MODULE Spec2Model ----------------------------
(***************************************************************************)
(* Model of the narration pipeline of backend/services/ai.py and of the    *)
(* translation service of backend/services/translation.py.                 *)
(*                                                                         *)
(* Text is a sequence of characters.  A character is a one-letter string;  *)
(* a character outside ASCII is written by its code point ("u2022" is the  *)
(* bullet glyph, "u0915" the Devanagari letter KA, "u0964" the danda).     *)
(*                                                                         *)
(* Times are exact rationals: a time of a narration in language L is an    *)
(* integer number of units of 1 / (10 * wpm(L)) seconds, so that one       *)
(* second is 10 * wpm(L) units, one word lasts 600 units and a pause of    *)
(* b tenths of a second lasts b * wpm(L) units.                            *)
(***************************************************************************)
EXTENDS Integers, Sequences, FiniteSets, TLC

VARIABLES
    slide,              \* the stored slide handed to generate_slide_narration
    net,                \* what each translation provider answers in this run
    translation_cache,  \* TranslationService.translation_cache
    result,             \* what the last call returned or raised
    previous,           \* what the call before the last returned or raised
    slides,             \* the stored slides of the presentation
    qa_logs,            \* the stored Q&A records of the presentation
    rag,                \* what the retrieval libraries do in this run
    db,                 \* the tables of data/app.db
    uploads,            \* the files of the uploads directory, by presentation
    requests            \* the requests and calls received, with their locals

vars == <<slide, net, translation_cache, result, previous, slides, qa_logs, rag,
          db, uploads, requests>>

-----------------------------------------------------------------------------
(* Characters and the str methods the code uses.                           *)

Upper == {"A","B","C","D","E","F","G","H","I","J","K","L","M",
          "N","O","P","Q","R","S","T","U","V","W","X","Y","Z"}

Lower == {"a","b","c","d","e","f","g","h","i","j","k","l","m",
          "n","o","p","q","r","s","t","u","v","w","x","y","z"}

UpperSeq == <<"A","B","C","D","E","F","G","H","I","J","K","L","M",
              "N","O","P","Q","R","S","T","U","V","W","X","Y","Z">>

LowerSeq == <<"a","b","c","d","e","f","g","h","i","j","k","l","m",
              "n","o","p","q","r","s","t","u","v","w","x","y","z">>

Cased == Upper \cup Lower

Digit == {"0","1","2","3","4","5","6","7","8","9"}

DigitSeq == <<"0","1","2","3","4","5","6","7","8","9">>

White == {" ", "\n", "\t"}

\* str.lower() on one character
LowerChar(c) ==
    IF c \in Upper
    THEN LowerSeq[CHOOSE i \in 1..Len(UpperSeq) : UpperSeq[i] = c]
    ELSE c

lower(s) == [i \in 1..Len(s) |-> LowerChar(s[i])]

\* str.strip(): the text between the first and the last non-blank character
strip(s) ==
    IF \A i \in 1..Len(s) : s[i] \in White
    THEN << >>
    ELSE LET first == CHOOSE i \in 1..Len(s) :
                          /\ s[i] \notin White
                          /\ \A j \in 1..(i - 1) : s[j] \in White
             back  == CHOOSE k \in 0..(Len(s) - 1) :
                          /\ s[Len(s) - k] \notin White
                          /\ \A j \in (Len(s) - k + 1)..Len(s) : s[j] \in White
         IN  SubSeq(s, first, Len(s) - back)

\* len(s.split()): the number of maximal runs of non-blank characters
word_count(s) ==
    Cardinality({i \in 1..Len(s) : s[i] \notin White /\ (i = 1 \/ s[i - 1] \in White)})

\* s.split('\n')
RECURSIVE split_newline(_)
split_newline(s) ==
    IF \A i \in 1..Len(s) : s[i] # "\n"
    THEN <<s>>
    ELSE LET p == CHOOSE i \in 1..Len(s) :
                      /\ s[i] = "\n"
                      /\ \A j \in 1..(i - 1) : s[j] # "\n"
         IN  <<SubSeq(s, 1, p - 1)>> \o split_newline(SubSeq(s, p + 1, Len(s)))

\* sep.join(parts)
RECURSIVE join(_, _)
join(sep, parts) ==
    IF parts = << >> THEN << >>
    ELSE IF Len(parts) = 1 THEN parts[1]
    ELSE parts[1] \o sep \o join(sep, Tail(parts))

\* s[:n]
prefix(s, n) == SubSeq(s, 1, IF Len(s) < n THEN Len(s) ELSE n)

\* str.isupper(): some cased character, and no lower-case one
isupper(s) ==
    /\ \E i \in 1..Len(s) : s[i] \in Upper
    /\ \A i \in 1..Len(s) : s[i] \notin Lower

\* str.istitle(): upper-case letters only after uncased characters, lower-case
\* letters only after cased ones, and at least one cased character
istitle(s) ==
    /\ \E i \in 1..Len(s) : s[i] \in Cased
    /\ \A i \in 1..Len(s) :
          /\ s[i] \in Upper => (i = 1 \/ s[i - 1] \notin Cased)
          /\ s[i] \in Lower => (i > 1 /\ s[i - 1] \in Cased)

endswith(s, c) == Len(s) > 0 /\ s[Len(s)] = c

\* word in text
contains(text, word) ==
    \E i \in 1..(Len(text) - Len(word) + 1) :
        \A j \in 1..Len(word) : text[i + j - 1] = word[j]

\* str(n) for n >= 0
RECURSIVE str_int(_)
str_int(n) ==
    IF n < 10 THEN <<DigitSeq[n + 1]>>
    ELSE str_int(n \div 10) \o <<DigitSeq[(n % 10) + 1]>>

\* the length of the longest prefix of s made of characters of set
leading_run(s, set) ==
    IF \A i \in 1..Len(s) : s[i] \in set
    THEN Len(s)
    ELSE (CHOOSE i \in 1..Len(s) :
              /\ s[i] \notin set
              /\ \A j \in 1..(i - 1) : s[j] \in set) - 1

drop(s, n) == SubSeq(s, n + 1, Len(s))

-----------------------------------------------------------------------------
(* backend/services/translation.py                                         *)

\* a language code as text (the codes the model's requests use, and 'auto')
lang_chars ==
    [en |-> <<"e","n">>, hi |-> <<"h","i">>, es |-> <<"e","s">>,
     fr |-> <<"f","r">>, de |-> <<"d","e">>, xx |-> <<"x","x">>,
     auto |-> <<"a","u","t","o">>]

hindi_chars ==
    {"u0905", "u0906", "u0907", "u0908", "u0909", "u090A", "u090B", "u090F", "u0910", "u0913",
     "u0914", "u0915", "u0916", "u0917", "u0918", "u0919", "u091A", "u091B", "u091C", "u091D",
     "u091E", "u091F", "u0920", "u0921", "u0922", "u0923", "u0924", "u0925", "u0926", "u0927",
     "u0928", "u092A", "u092B", "u092C", "u092D", "u092E", "u092F", "u0930", "u0932", "u0935",
     "u0936", "u0937", "u0938", "u0939"}

spanish_words ==
    {<<"e","l">>, <<"l","a">>, <<"d","e">>, <<"q","u","e">>, <<"y">>, <<"a">>, <<"e","n">>,
     <<"u","n">>, <<"e","s">>, <<"s","e">>, <<"n","o">>, <<"t","e">>, <<"l","o">>, <<"l","e">>,
     <<"d","a">>, <<"s","u">>, <<"p","o","r">>, <<"s","o","n">>, <<"c","o","n">>,
     <<"p","a","r","a">>, <<"a","l">>, <<"d","e","l">>, <<"l","o","s">>, <<"l","a","s">>}

french_words ==
    {<<"l","e">>, <<"l","a">>, <<"d","e">>, <<"e","t">>, <<"u00E0">>, <<"u","n">>,
     <<"u","n","e">>, <<"e","s","t">>, <<"q","u","e">>, <<"p","o","u","r">>,
     <<"d","a","n","s">>, <<"c","e">>, <<"i","l">>, <<"s","u","r">>, <<"a","v","e","c">>,
     <<"n","e">>, <<"s","e">>, <<"p","a","s">>, <<"t","o","u","t">>, <<"m","a","i","s">>,
     <<"s","o","n">>, <<"s","e","s">>}

german_words ==
    {<<"d","e","r">>, <<"d","i","e">>, <<"d","a","s">>, <<"u","n","d">>, <<"i","n">>,
     <<"d","e","n">>, <<"v","o","n">>, <<"z","u">>, <<"d","e","m">>, <<"m","i","t">>,
     <<"s","i","c","h">>, <<"d","e","s">>, <<"a","u","f">>, <<"f","u00FC","r">>,
     <<"i","s","t">>, <<"i","m">>, <<"a","n">>, <<"a","l","s">>, <<"a","u","c","h">>,
     <<"e","i","n","e">>, <<"e","i","n">>, <<"n","a","c","h">>, <<"w","i","e">>,
     <<"o","d","e","r">>, <<"a","b","e","r">>, <<"v","o","r">>, <<"a","u","s">>,
     <<"b","e","i">>, <<"n","u","r">>, <<"d","u","r","c","h">>, <<"u","m">>, <<"a","m">>,
     <<"z","u","r">>, <<"n","o","c","h">>, <<"m","e","h","r">>, <<"w","e","n","n">>,
     <<"u00FC","b","e","r">>, <<"s","o">>, <<"s","i","e">>, <<"k","a","n","n">>,
     <<"a","l","l","e">>, <<"w","i","r","d">>, <<"s","i","n","d">>, <<"h","a","t">>,
     <<"h","a","b","e","n">>, <<"k","u00F6","n","n","e","n">>, <<"m","u00FC","s","s","e","n">>,
     <<"s","o","l","l">>, <<"w","i","l","l">>}

\* the shortest text detect_language looks at
DetectMinLen == 3

detect_language(text) ==
    IF Len(strip(text)) < DetectMinLen THEN "en"
    ELSE IF \E i \in 1..Len(text) : text[i] \in hindi_chars THEN "hi"
    ELSE LET text_lower == lower(text) IN
         IF \E w \in spanish_words : contains(text_lower, w) THEN "es"
         ELSE IF \E w \in french_words : contains(text_lower, w) THEN "fr"
         ELSE IF \E w \in german_words : contains(text_lower, w) THEN "de"
         ELSE "en"

\* hashlib.md5(f"{text}_{source_lang}_{target_lang}"): the hash is taken to be
\* injective, so the key is the hashed text itself
cache_key(text, source_lang, target_lang) ==
    text \o <<"_">> \o lang_chars[source_lang] \o <<"_">> \o lang_chars[target_lang]

\* What a provider that is up sends back: the text with every letter replaced
\* by a letter of the target script (each provider has its own rendering), the
\* digits, punctuation, blanks and line breaks kept.
provider_letter ==
    [libretranslate |-> "u0915", google |-> "u0916", mymemory |-> "u0917"]

rendering(provider, text) ==
    [i \in 1..Len(text) |->
        IF text[i] \in Cased \cup hindi_chars THEN provider_letter[provider] ELSE text[i]]

\* One HTTP exchange with a provider, as the variable net says for this
\* provider: "down", it raises (connection error, timeout, HTTP error,
\* malformed answer); "empty", it returns an empty text; "up", it returns a
\* translation; "terse", it returns a translation, but only a blank for a
\* text that ends a sentence ('.' or '!').
provider_call(provider, text, source_lang, target_lang) ==
    CASE net[provider] = "down"  -> [raised |-> TRUE,  text |-> << >>]
      [] net[provider] = "empty" -> [raised |-> FALSE, text |-> << >>]
      [] net[provider] = "up"    -> [raised |-> FALSE, text |-> rendering(provider, text)]
      [] net[provider] = "terse" ->
           [raised |-> FALSE,
            text   |-> IF endswith(text, ".") \/ endswith(text, "!")
                       THEN <<" ">> ELSE rendering(provider, text)]

_translate_libretranslate(text, source_lang, target_lang) ==
    provider_call("libretranslate", text, source_lang, target_lang)

_translate_google(text, source_lang, target_lang) ==
    provider_call("google", text, source_lang, target_lang)

_translate_mymemory(text, source_lang, target_lang) ==
    provider_call("mymemory", text, source_lang, target_lang)

\* f"[{target_lang}] {text}"
failure_marker(text, target_lang) ==
    <<"[">> \o lang_chars[target_lang] \o <<"]", " ">> \o text

\* "if not translation: try the next provider": the translation so far, or
\* what the provider r answered (nothing when it raised)
or_provider(translation, r) ==
    IF translation # << >> THEN translation
    ELSE IF r.raised THEN << >> ELSE r.text

\* the providers tried in order of preference; << >> when none translates
providers_translation(text, source_lang, target_lang) ==
    or_provider(or_provider(or_provider(<< >>,
        _translate_libretranslate(text, source_lang, target_lang)),
        _translate_google(text, source_lang, target_lang)),
        _translate_mymemory(text, source_lang, target_lang))

\* no marker when no provider translates
or_no_marker(translation, text, target_lang) == translation

\* "if not translation: translation = f'[{target_lang}] {text}'"
or_failure_marker(translation, text, target_lang) ==
    IF translation # << >> THEN translation ELSE failure_marker(text, target_lang)

\* cache_and_return storing the key text in place of the translation
cache_and_return_key(c, key, translation) ==
    [out   |-> translation,
     cache |-> [k \in DOMAIN c \cup {key} |-> IF k = key THEN key ELSE c[k]]]

\* "self.translation_cache[cache_key] = translation; return translation"
cache_and_return(c, key, translation) ==
    [out   |-> translation,
     cache |-> [k \in DOMAIN c \cup {key} |-> IF k = key THEN translation ELSE c[k]]]

\* translate_text from the comparison of the source and target languages on,
\* the source language detected and the cache missed
translate_from(c, text, target_lang, source_lang, key) ==
    IF source_lang = target_lang THEN [out |-> text, cache |-> c]
    ELSE cache_and_return(c, key,
             or_failure_marker(providers_translation(text, source_lang, target_lang),
                               text, target_lang))

\* translate_text(text, target_lang, source_lang) run on the cache c: the text
\* returned and the cache it leaves.  None and '' are both the empty text: the
\* code only tests them with "not translation".
translate_text(c, text, target_lang, source_lang) ==
    IF strip(text) = << >> THEN [out |-> text, cache |-> c]
    ELSE IF cache_key(text, source_lang, target_lang) \in DOMAIN c
    THEN [out |-> c[cache_key(text, source_lang, target_lang)], cache |-> c]
    ELSE translate_from(c, text, target_lang,
                        IF source_lang = "auto" THEN detect_language(text)
                        ELSE source_lang,
                        cache_key(text, source_lang, target_lang))

-----------------------------------------------------------------------------
(* backend/services/ai.py: _analyze_slide_structure                        *)

\* ['•', '-', '*', '◦', '▪', '▫']
bullet_prefixes == {"u2022", "-", "*", "u25E6", "u25AA", "u25AB"}

\* the lines shorter than this many characters can be headings
HeadingMaxLen == 80

\* the lines of at most this many words can be bullets without a glyph
LooseBulletMaxWords == 8

\* re.match(r'^\d+[\.\)]\s+', line)
numbered_match(line) ==
    LET d == leading_run(line, Digit) IN
        /\ d >= 1
        /\ Len(line) >= d + 2
        /\ line[d + 1] \in {".", ")"}
        /\ line[d + 2] \in White

\* re.sub(r'^\d+[\.\)]\s+', '', line) on a line that matches
numbered_sub(line) ==
    LET d == leading_run(line, Digit)
        rest == drop(line, d + 1)
    IN  drop(rest, leading_run(rest, White))

\* bullet_sub removing the first glyph only, not the run of glyphs and blanks
bullet_sub_first_glyph(line) == drop(line, 1)

\* re.sub(r'^[•\-*◦▪▫\s]+', '', line)
bullet_sub(line) == drop(line, leading_run(line, bullet_prefixes \cup White))

\* the heading test without its length test
is_heading_any_length(line) == isupper(line) \/ istitle(line)

\* the heading test of the elif chain
is_heading(line) == Len(line) < HeadingMaxLen /\ (isupper(line) \/ istitle(line))

\* One pass of the for loop over a line: the list the line is appended to and
\* the text appended ("none": the line is appended to no list).
classify_line(line) ==
    IF Len(line) > 0 /\ line[1] \in bullet_prefixes
    THEN LET clean_text == strip(bullet_sub(line)) IN
         IF clean_text # << >>
         THEN [list |-> "bullet_points", text |-> clean_text]
         ELSE [list |-> "none", text |-> << >>]
    ELSE IF is_heading(line)
    THEN [list |-> "headings", text |-> line]
    ELSE IF numbered_match(line)
    THEN LET clean_text == strip(numbered_sub(line)) IN
         IF clean_text # << >>
         THEN [list |-> "lists", text |-> clean_text]
         ELSE [list |-> "none", text |-> << >>]
    ELSE IF /\ word_count(line) <= LooseBulletMaxWords
            /\ ~endswith(line, ".")
            /\ ~endswith(line, ":")
    THEN [list |-> "bullet_points", text |-> line]
    ELSE [list |-> "paragraphs", text |-> line]

\* [line.strip() for line in content.split('\n') if line.strip()]
RECURSIVE stripped_lines(_)
stripped_lines(raw) ==
    IF raw = << >> THEN << >>
    ELSE LET l == strip(Head(raw)) IN
         (IF l # << >> THEN <<l>> ELSE << >>) \o stripped_lines(Tail(raw))

\* content_lines keeping the blank lines (no "if line.strip()")
content_lines_unfiltered(content) ==
    LET raw == split_newline(content) IN [i \in 1..Len(raw) |-> strip(raw[i])]

content_lines(content) == stripped_lines(split_newline(content))

\* the classification of every line, in line order
classified(lines) == [i \in 1..Len(lines) |-> classify_line(lines[i])]

\* the texts the loop appends to one list, in line order
collect(cl, list) ==
    [i \in 1..Len(SelectSeq(cl, LAMBDA x : x.list = list)) |->
        SelectSeq(cl, LAMBDA x : x.list = list)[i].text]

\* the dictionary elements after the loop
elements_of(title, cl) ==
    [title         |-> title,
     bullet_points |-> collect(cl, "bullet_points"),
     paragraphs    |-> collect(cl, "paragraphs"),
     headings      |-> collect(cl, "headings"),
     lists         |-> collect(cl, "lists")]

\* "translate_text(x, language) if x else ''" under "if language != 'en'"
translated(c, text, language) ==
    IF language # "en" /\ text # << >>
    THEN translate_text(c, text, language, "auto")
    ELSE [out |-> text, cache |-> c]

\* the analysis from the split into lines on: title is the translated title,
\* t the translated content and the cache left
analyze_lines(title, t) ==
    [elements |-> elements_of(title, classified(content_lines(t.out))),
     cache    |-> t.cache]

\* the analysis from the translation of the content on
analyze_content(t, content, language) ==
    analyze_lines(t.out, translated(t.cache, content, language))

\* _analyze_slide_structure(slide, language) run on the cache c
_analyze_slide_structure(c, s, language) ==
    analyze_content(translated(c, strip(s.title), language), strip(s.content), language)

-----------------------------------------------------------------------------
(* backend/services/ai.py: the narration templates                         *)

\* templates[language].get(tone, templates[language]['formal'])
known_tone(tone) ==
    IF tone \in {"formal", "friendly", "academic", "humorous"} THEN tone ELSE "formal"

\* the closing mark of the English one-sentence templates
english_mark(tone) == IF known_tone(tone) = "humorous" THEN <<"!">> ELSE <<".">>

\* the closing mark of the Hindi title template (the danda, or '!')
hindi_mark(tone) == IF known_tone(tone) = "humorous" THEN <<"!">> ELSE <<"u0964">>

\* the index of the first character of s that is in set, 0 when there is none
first_in(s, set) ==
    IF \A i \in 1..Len(s) : s[i] \notin set
    THEN 0
    ELSE CHOOSE i \in 1..Len(s) :
             /\ s[i] \in set
             /\ \A j \in 1..(i - 1) : s[j] \notin set

\* str.format(index=index, <name>=value) on a rendered template.  '{{' and
\* '}}' are literal braces, '{index}' and '{<name>}' are replaced, any other
\* field raises KeyError or IndexError, a lone brace raises ValueError.  The
\* replaced text is not scanned again.  (A field with a conversion or a format
\* specification is taken to raise: no text of the model has one.)
RECURSIVE str_format(_, _, _, _)
str_format(s, index, name, value) ==
    LET p == first_in(s, {"{", "}"}) IN
    IF p = 0 THEN [raised |-> FALSE, text |-> s]
    ELSE IF p < Len(s) /\ s[p + 1] = s[p]
    THEN LET rest == str_format(drop(s, p + 1), index, name, value) IN
         [raised |-> rest.raised, text |-> SubSeq(s, 1, p) \o rest.text]
    ELSE IF s[p] = "}" THEN [raised |-> TRUE, text |-> << >>]
    ELSE LET after == drop(s, p)
             q     == first_in(after, {"}"})
             field == SubSeq(after, 1, q - 1)
             rest  == str_format(drop(after, q), index, name, value)
             put(v) == [raised |-> rest.raised,
                        text   |-> SubSeq(s, 1, p - 1) \o v \o rest.text]
         IN  IF q = 0 THEN [raised |-> TRUE, text |-> << >>]
             ELSE IF field = <<"i","n","d","e","x">> THEN put(str_int(index))
             ELSE IF field = name THEN put(value)
             ELSE [raised |-> TRUE, text |-> << >>]

\* the English templates of _generate_bullet_narration, rendered (f-strings)
bullet_template(bullet, index, tone) ==
    CASE known_tone(tone) = "formal" ->
           <<"P","o","i","n","t"," ">> \o str_int(index) \o <<":"," ">> \o bullet \o <<".">>
      [] known_tone(tone) = "friendly" ->
           <<"H","e","r","e","'","s"," ","p","o","i","n","t"," ">> \o str_int(index)
               \o <<":"," ">> \o bullet \o <<".">>
      [] known_tone(tone) = "academic" ->
           <<"I","t","e","m"," ">> \o str_int(index)
               \o <<" ","s","t","a","t","e","s",":"," ">> \o bullet \o <<".">>
      [] known_tone(tone) = "humorous" ->
           <<"B","u","l","l","e","t"," ">> \o str_int(index)
               \o <<" ","s","a","y","s",":"," ">> \o bullet \o <<"!">>

\* the English templates of _generate_list_narration, rendered (f-strings)
list_template(list_item, index, tone) ==
    CASE known_tone(tone) = "formal" ->
           <<"N","u","m","b","e","r"," ">> \o str_int(index) \o <<":"," ">>
               \o list_item \o <<".">>
      [] known_tone(tone) = "friendly" ->
           <<"H","e","r","e","'","s"," ","n","u","m","b","e","r"," ">> \o str_int(index)
               \o <<":"," ">> \o list_item \o <<".">>
      [] known_tone(tone) = "academic" ->
           <<"S","t","e","p"," ">> \o str_int(index) \o <<":"," ">> \o list_item \o <<".">>
      [] known_tone(tone) = "humorous" ->
           <<"I","t","e","m"," ">> \o str_int(index) \o <<" ","i","s",":"," ">>
               \o list_item \o <<"!">>

\* Each generator runs on a cache c and gives the text it returns, the cache
\* it leaves, and whether it raised instead of returning.

\* "return <template>": the text, read off the translation t when the
\* template went through translate_text
returned(t) == [raised |-> FALSE, text |-> t.out, cache |-> t.cache]

\* base_template: the English template, translated for another language
base_template(c, english_template, language) ==
    IF language = "en" THEN [out |-> english_template, cache |-> c]
    ELSE translate_text(c, english_template, language, "auto")

\* "return base_template.format(index=index, <name>=value)"
format_template(t, index, name, value) ==
    [raised |-> str_format(t.out, index, name, value).raised,
     text   |-> str_format(t.out, index, name, value).text,
     cache  |-> t.cache]

_generate_title_narration(c, title, tone, language) ==
    IF language \in {"en", "es"}
    THEN [raised |-> FALSE, text |-> title \o english_mark(tone), cache |-> c]
    ELSE IF language = "hi"
    THEN [raised |-> FALSE, text |-> title \o hindi_mark(tone), cache |-> c]
    ELSE returned(translate_text(c, title \o english_mark(tone), language, "auto"))

_generate_heading_narration(c, heading, tone, language) ==
    IF language = "en"
    THEN [raised |-> FALSE, text |-> heading \o english_mark(tone), cache |-> c]
    ELSE returned(translate_text(c, heading \o english_mark(tone), language, "auto"))

_generate_bullet_narration(c, bullet, index, total, tone, language) ==
    format_template(base_template(c, bullet_template(bullet, index, tone), language),
                    index, <<"b","u","l","l","e","t">>, bullet)

_generate_list_narration(c, list_item, index, total, tone, language) ==
    format_template(base_template(c, list_template(list_item, index, tone), language),
                    index, <<"i","t","e","m">>, list_item)

_generate_paragraph_narration(c, paragraph, tone, language) ==
    IF language = "en"
    THEN [raised |-> FALSE, text |-> paragraph \o english_mark(tone), cache |-> c]
    ELSE returned(translate_text(c, paragraph \o english_mark(tone), language, "auto"))

-----------------------------------------------------------------------------
(* backend/services/ai.py: _generate_structured_narration                  *)

\* the narration of element i of one kind, on cache c
narrate_element(c, type, element, i, total, tone, language) ==
    CASE type = "heading"   -> _generate_heading_narration(c, element, tone, language)
      [] type = "bullet"    -> _generate_bullet_narration(c, element, i, total, tone, language)
      [] type = "list"      -> _generate_list_narration(c, element, i, total, tone, language)
      [] type = "paragraph" -> _generate_paragraph_narration(c, element, tone, language)

\* the part appended for element i (bullets and list items carry their index)
narration_part(type, text, element, i) ==
    IF type \in {"bullet", "list"}
    THEN [type |-> type, text |-> text, element |-> element, index |-> i]
    ELSE [type |-> type, text |-> text, element |-> element]

\* the parts, the cache and the raised flag after the generator answered g
\* for an element: "narration_parts.append({...})" unless it raised
appended(acc, g, type, element, i) ==
    [raised |-> g.raised,
     cache  |-> g.cache,
     parts  |-> IF g.raised THEN acc.parts
                ELSE Append(acc.parts, narration_part(type, g.text, element, i))]

\* One for loop of _generate_structured_narration, from element i on: acc holds
\* the parts appended so far, the cache, and whether a generator has raised
\* (the exception leaves the function: nothing after it runs).
RECURSIVE narrate_elements(_, _, _, _, _, _)
narrate_elements(acc, type, elements, i, tone, language) ==
    IF acc.raised \/ i > Len(elements) THEN acc
    ELSE narrate_elements(
             appended(acc,
                      narrate_element(acc.cache, type, elements[i], i, Len(elements),
                                      tone, language),
                      type, elements[i], i),
             type, elements, i + 1, tone, language)

\* "if slide_structure['title']": the title part
narrate_title(acc, title, tone, language) ==
    IF title # << >>
    THEN appended(acc, _generate_title_narration(acc.cache, title, tone, language),
                  "title", title, 0)
    ELSE acc

_generate_structured_narration(c, slide_structure, tone, language) ==
    narrate_elements(
        narrate_elements(
            narrate_elements(
                narrate_elements(
                    narrate_title([raised |-> FALSE, cache |-> c, parts |-> << >>],
                                  slide_structure.title, tone, language),
                    "heading", slide_structure.headings, 1, tone, language),
                "bullet", slide_structure.bullet_points, 1, tone, language),
            "list", slide_structure.lists, 1, tone, language),
        "paragraph", slide_structure.paragraphs, 1, tone, language)

-----------------------------------------------------------------------------
(* backend/services/ai.py: _create_synchronized_segments                   *)

words_per_minute ==
    [en |-> 150, hi |-> 140, es |-> 160, fr |-> 155, de |-> 145,
     it |-> 160, pt |-> 155, ru |-> 140, ja |-> 130, ko |-> 140,
     zh |-> 130, ar |-> 135, nl |-> 150, sv |-> 150, no |-> 150,
     da |-> 150, fi |-> 140, pl |-> 140, tr |-> 145, th |-> 130, vi |-> 140]

\* words_per_minute.get(language, 150)
DefaultWpm == 150

\* wpm reading the English rate for every language
wpm_english(language) == words_per_minute["en"]

wpm(language) ==
    IF language \in DOMAIN words_per_minute THEN words_per_minute[language]
    ELSE DefaultWpm

\* one second, in the time units of a narration in this language
second(language) == 10 * wpm(language)

\* word_count * seconds_per_word, seconds_per_word = 60 / wpm
spoken(word_count_, language) == word_count_ * 60 * 10

\* max(a, b)
max(a, b) == IF a >= b THEN a ELSE b

\* base_duration without the floor of one second
base_duration_unfloored(text, language) == spoken(word_count(text), language)

\* max(1, word_count * seconds_per_word)
base_duration(text, language) ==
    max(second(language), spoken(word_count(text), language))

\* the pause added after a part of this type, in tenths of a second
pause_tenths(type) ==
    CASE type = "title"   -> 10
      [] type = "heading" -> 5
      [] type = "bullet"  -> 3
      [] type = "list"    -> 4
      [] OTHER            -> 0

part_duration(part, language) ==
    base_duration(part.text, language) + pause_tenths(part.type) * wpm(language)

\* segment with end_time taken from the duration alone
segment_end_is_duration(part, current_time, language) ==
    LET duration == base_duration(part.text, language)
                    + pause_tenths(part.type) * wpm(language) IN
    [text           |-> part.text,
     start_time     |-> current_time,
     duration       |-> duration,
     end_time       |-> duration,
     highlight_text |-> part.element,
     type           |-> part.type,
     language       |-> language]

\* the segment emitted for a part when the clock shows current_time
segment(part, current_time, language) ==
    LET duration == part_duration(part, language) IN
    [text           |-> part.text,
     start_time     |-> current_time,
     duration       |-> duration,
     end_time       |-> current_time + duration,
     highlight_text |-> part.element,
     type           |-> part.type,
     language       |-> language]

\* the for loop without "current_time += duration"
RECURSIVE segments_clock_stopped(_, _, _, _)
segments_clock_stopped(narration_parts, i, current_time, language) ==
    IF i > Len(narration_parts) THEN << >>
    ELSE <<segment(narration_parts[i], current_time, language)>>
         \o segments_clock_stopped(narration_parts, i + 1, current_time, language)

\* the for loop over the parts from part i on, the clock showing current_time
RECURSIVE segments_from(_, _, _, _)
segments_from(narration_parts, i, current_time, language) ==
    IF i > Len(narration_parts) THEN << >>
    ELSE LET seg == segment(narration_parts[i], current_time, language) IN
         <<seg>> \o segments_from(narration_parts, i + 1,
                                  current_time + seg.duration, language)

_create_synchronized_segments(narration_parts, slide_structure, language) ==
    segments_from(narration_parts, 1, 0, language)

-----------------------------------------------------------------------------
(* backend/services/ai.py: generate_slide_narration                        *)

\* full_narration[:3000]
MaxNarrationLen == 3000

\* [part["text"] for part in narration_parts]
RECURSIVE part_texts(_)
part_texts(narration_parts) ==
    IF narration_parts = << >> THEN << >>
    ELSE <<Head(narration_parts).text>> \o part_texts(Tail(narration_parts))

\* full_text without the cut to MaxNarrationLen characters
full_text_uncut(narration_parts) == join(<<" ">>, part_texts(narration_parts))

full_text_of(narration_parts) ==
    prefix(join(<<" ">>, part_texts(narration_parts)), MaxNarrationLen)

\* the dictionary returned (status "ok") for the analysis a and the narration
\* n, or the exception raised (status "raised"), and the cache left behind.
\* narration_parts is kept beside the returned keys: it is the local the
\* segments and full_text are made from.
narration_of(a, n, tone, language) ==
    IF n.raised
    THEN [status |-> "raised", language |-> language, tone |-> tone,
          slide_structure |-> a.elements, cache |-> n.cache]
    ELSE [status          |-> "ok",
          full_text       |-> full_text_of(n.parts),
          segments        |-> _create_synchronized_segments(n.parts, a.elements,
                                                            language),
          language        |-> language,
          tone            |-> tone,
          slide_structure |-> a.elements,
          narration_parts |-> n.parts,
          cache           |-> n.cache]

\* generate_slide_narration from the narration of the elements on
narrate_structure(a, tone, language) ==
    narration_of(a, _generate_structured_narration(a.cache, a.elements, tone, language),
                 tone, language)

\* generate_slide_narration(slide, slides, tone, language) run on the cache c
generate_slide_narration(c, s, tone, language) ==
    narrate_structure(_analyze_slide_structure(c, s, language), tone, language)

-----------------------------------------------------------------------------
(* The slides, tones, languages and provider behaviours of the model.      *)

\* the most lines a slide content is put together from
MaxLines == 2

\* the words of the line that is longer than a heading may be
LongLineWords == 30

\* the words of the title that makes the narration longer than full_text may be
LongTitleWords == 1001

\* n copies of word w, one space between them
words(n, w) ==
    [i \in 1..(n * (Len(w) + 1) - 1) |->
        IF i % (Len(w) + 1) = 0 THEN " " ELSE w[i % (Len(w) + 1)]]

\* the lines the slide contents are put together from
Lines ==
    { <<"u2022", " ", "a", "a">>,                       \* a bullet
      <<"-">>,                                          \* a glyph and no text
      <<"1", ")", " ", "A", "a", " ", "a", "a">>,       \* "1) Define scope"
      <<"1", ".", " ", "A", "a", " ", "A", "a">>,       \* "1. Define Scope"
      <<"a", "a", " ", "a", "a", ".">>,                 \* a sentence
      <<"-", " ", "{", "x", "}">> }                     \* a bullet with a field

\* contents that are not among the combinations of Lines
SpecialContents ==
    { <<words(LooseBulletMaxWords, <<"a", "a">>)>>,
      <<words(LooseBulletMaxWords + 1, <<"a", "a">>)>>,
      <<<<" ", "a", "a", " ", "a", "a", " ">>, <<"-", "-", " ", "a", "a">>>>,
      <<<<"A", "A", " ", "A", "A">>, << >>, <<"a", "a", ":">>>>,
      <<<<"A", "a", " ", "A", "a">>, <<"1", ".", " ", "A", "a", " ", "A", "a">>>>,
      <<<<"1", "2", ".", " ", "a", "a">>, <<"1", ".", "a", "a">>>>,
      <<<<"1", ")", " ", "{", "}">>>>,
      [i \in 1..3 |-> <<"u2022", " ", "a", "a">>],
      <<<<"*", " ", "{", "{", "a", "}", "}">>, <<"*", " ", "{", "i", "n", "d", "e", "x", "}">>>>,
      <<words(26, <<"A", "a">>) \o <<"a">>>>,
      <<words(27, <<"A", "a">>)>>,
      <<words(LongLineWords, <<"A", "a">>) \o <<".">>>>,
      <<words(LongLineWords, <<"A", "A">>), <<"u2022", " ", "a", "a">>>> }

LineSeqs == UNION {[1..n -> Lines] : n \in 0..MaxLines}

Titles == { << >>, <<" ", "A", "a", " ">> }

Slides ==
    {[title |-> t, content |-> join(<<"\n">>, ls)] : t \in Titles, ls \in LineSeqs}
    \cup {[title |-> <<"A", "a">>, content |-> join(<<"\n">>, ls)] : ls \in SpecialContents}
    \cup {[title |-> words(LongTitleWords, <<"A", "a">>), content |-> <<"a", "a">>]}

Tones == {"formal", "humorous", "casual"}

Languages == {"en", "hi", "es", "xx"}

Providers == {"libretranslate", "google", "mymemory"}

\* the provider behaviours of a run: all three down; the first down, the
\* second answering an empty text and the third translating; the first
\* answering blanks for sentences
Nets ==
    { [libretranslate |-> "down",  google |-> "down",  mymemory |-> "down"],
      [libretranslate |-> "down",  google |-> "empty", mymemory |-> "up"],
      [libretranslate |-> "terse", google |-> "up",    mymemory |-> "down"] }

-----------------------------------------------------------------------------
(* The narration service: a process starts with an empty translation cache *)
(* and serves a narration request on the slide, and then the same request  *)
(* once more.                                                              *)

NoResult == [status |-> "none"]

Init ==
    /\ slide \in Slides
    /\ net \in Nets
    /\ translation_cache = << >>
    /\ result = NoResult
    /\ previous = NoResult
    /\ db = << >>
    /\ uploads = << >>
    /\ requests = << >>
    /\ slides = <<slide>>
    /\ qa_logs = << >>
    /\ rag = [mode |-> "down", sims |-> << >>]

\* the outcome r of the call is handed back and the cache it leaves is kept
Respond(r) ==
    /\ result' = [k \in DOMAIN r \ {"cache"} |-> r[k]]
    /\ translation_cache' = r.cache

\* a call of generate_slide_narration on the stored slide
Narrate(tone, language) ==
    /\ result.status = "none"
    /\ Respond(generate_slide_narration(translation_cache, slide, tone, language))
    /\ UNCHANGED <<slide, net, previous, slides, qa_logs, rag,
                 db, uploads, requests>>

\* a second call of generate_slide_narration on the stored slide, with the
\* tone and language of the first, on the cache the first call left
NarrateAgain ==
    /\ result.status \in {"ok", "raised"}
    /\ previous.status = "none"
    /\ previous' = result
    /\ Respond(generate_slide_narration(translation_cache, slide,
                                        result.tone, result.language))
    /\ UNCHANGED <<slide, net, slides, qa_logs, rag,
                 db, uploads, requests>>

Next ==
    \/ \E tone \in Tones, language \in Languages : Narrate(tone, language)
    \/ NarrateAgain

Spec == Init /\ [][Next]_vars

-----------------------------------------------------------------------------
(* backend/rag.py: build_corpus and top_k_contexts                         *)

\* f"{title.strip()}\n{content.strip()}"
slide_text(s) == strip(s.title) \o <<"\n">> \o strip(s.content)

\* f"Q: {q}\nA: {a}" with q and a the question and answer as they are
qa_text_unstripped(qa) ==
    <<"Q", ":", " ">> \o qa.question \o <<"\n", "A", ":", " ">> \o qa.answer

\* f"Q: {q}\nA: {a}" with q and a the stripped question and answer
qa_text(qa) ==
    <<"Q", ":", " ">> \o strip(qa.question) \o <<"\n", "A", ":", " ">> \o strip(qa.answer)

\* "if text.strip()"
slide_kept(s) == strip(slide_text(s)) # << >>

\* build_corpus appending a document for every slide, the empty ones too
slide_docs_unfiltered(slides_) == [i \in 1..Len(slides_) |-> slide_text(slides_[i])]

\* the documents the first loop appends, in slide order
slide_docs(slides_) ==
    [i \in 1..Len(SelectSeq(slides_, slide_kept)) |->
        slide_text(SelectSeq(slides_, slide_kept)[i])]

\* "if q or a"
qa_kept(qa) == strip(qa.question) # << >> \/ strip(qa.answer) # << >>

\* the documents the second loop appends, in log order
qa_docs(qa_logs_) ==
    [i \in 1..Len(SelectSeq(qa_logs_, qa_kept)) |->
        qa_text(SelectSeq(qa_logs_, qa_kept)[i])]

build_corpus(slides_, qa_logs_) == slide_docs(slides_) \o qa_docs(qa_logs_)

\* What the retrieval libraries do in a run: "missing", importing rag raises
\* (a library it imports is not installed); "down", the embedding provider
\* raises; "up", it answers, and cosine_similarity gives document i the score
\* sims[i] (a whole number standing for the float).
RagMode(mode, sims) == [mode |-> mode, sims |-> sims]

\* sims for the documents of one call
sims_of(embeddings, docs) == SubSeq(embeddings.sims, 1, Len(docs))

\* np.argsort(sims): the orders it may give, the positions of the documents
\* from the lowest score to the highest.  The default sort kind is not
\* stable: documents with the same score come in any order.
argsort(sims) ==
    {order \in [1..Len(sims) -> 1..Len(sims)] :
        /\ \A i, j \in 1..Len(sims) : i # j => order[i] # order[j]
        /\ \A i, j \in 1..Len(sims) : i < j => sims[order[i]] <= sims[order[j]]}

\* order[::-1]
reversed(order) == [i \in 1..Len(order) |-> order[Len(order) + 1 - i]]

\* the except branch without the cut "[:k]"
first_k_contexts_uncut(docs, k) == [i \in 1..Len(docs) |-> <<i - 1, 0, docs[i]>>]

\* the except branch: [(i, 0.0, d) for i, d in list(enumerate(docs))[:k]]
first_k_contexts(docs, k) ==
    [i \in 1..(IF k < Len(docs) THEN k ELSE Len(docs)) |-> <<i - 1, 0, docs[i]>>]

\* ranked_indices taken from the head of the ascending order (no "[::-1]")
ranked_indices_ascending(order, k) == prefix(order, k)

\* np.argsort(sims)[::-1][:k]
ranked_indices(order, k) == prefix(reversed(order), k)

\* [(int(i), float(sims[i]), docs[i]) for i in ranked_indices]; the indices
\* returned count from 0
ranked_contexts(sims, docs, ranked) ==
    [i \in 1..Len(ranked) |-> <<ranked[i] - 1, sims[ranked[i]], docs[ranked[i]]>>]

\* top_k_contexts(query, docs, k) when the libraries behave as embeddings
\* says and np.argsort gives order
top_k_contexts(query, docs, k, embeddings, order) ==
    IF docs = << >> THEN << >>
    ELSE IF embeddings.mode = "up"
    THEN ranked_contexts(sims_of(embeddings, docs), docs, ranked_indices(order, k))
    ELSE first_k_contexts(docs, k)

-----------------------------------------------------------------------------
(* The retrieval functions on stored slides and Q&A records.               *)

\* the most slides of a presentation, and the most Q&A records of its log
MaxSlides == 2

MaxLogs == 1

\* the most documents a corpus can hold
MaxDocs == MaxSlides + MaxLogs

\* the largest k asked of top_k_contexts
MaxK == 4

\* the slides the presentations are made of: an empty one, one whose title is
\* blank and whose content is empty, and one with a title and a content
DeckSlides ==
    { [title |-> << >>, content |-> << >>],
      [title |-> <<" ">>, content |-> << >>],
      [title |-> <<"A", "a">>, content |-> <<" ", "b", "b", "\n">>] }

Decks == UNION {[1..n -> DeckSlides] : n \in 0..MaxSlides}

\* the Q&A records: an empty one, and one with a question and an answer
QARecords ==
    { [question |-> << >>, answer |-> << >>],
      [question |-> <<"q", "q", " ">>, answer |-> <<"a", "a">>] }

Logs == UNION {[1..n -> QARecords] : n \in 0..MaxLogs}

\* the provider down, and the provider up with the same score for every
\* document, rising scores, falling scores, and two scores in turn
Embeddings ==
    { RagMode("down", << >>),
      RagMode("up", [i \in 1..MaxDocs |-> 1]),
      RagMode("up", [i \in 1..MaxDocs |-> i]),
      RagMode("up", [i \in 1..MaxDocs |-> MaxDocs - i]),
      RagMode("up", [i \in 1..MaxDocs |-> i % 2]) }

Queries == { << >>, <<"a", "a">> }

NoSlide == [title |-> << >>, content |-> << >>]

NetDown == [libretranslate |-> "down", google |-> "down", mymemory |-> "down"]

InitRetrieval ==
    /\ slides \in Decks
    /\ qa_logs \in Logs
    /\ rag \in Embeddings
    /\ slide = NoSlide
    /\ net = NetDown
    /\ translation_cache = << >>
    /\ result = NoResult
    /\ previous = NoResult
    /\ db = << >>
    /\ uploads = << >>
    /\ requests = << >>

\* a call of build_corpus on the stored slides and Q&A records
BuildCorpus ==
    /\ result.status = "none"
    /\ result' = [status |-> "corpus", docs |-> build_corpus(slides, qa_logs)]
    /\ UNCHANGED <<slide, net, translation_cache, previous, slides, qa_logs, rag,
                 db, uploads, requests>>

\* the same call once more
BuildCorpusAgain ==
    /\ result.status = "corpus"
    /\ previous.status = "none"
    /\ previous' = result
    /\ result' = [status |-> "corpus", docs |-> build_corpus(slides, qa_logs)]
    /\ UNCHANGED <<slide, net, translation_cache, slides, qa_logs, rag,
                 db, uploads, requests>>

\* the orders np.argsort may give for the documents of a call (none is asked
\* for when the provider is down)
orders(embeddings, docs) ==
    IF embeddings.mode = "up" THEN argsort(sims_of(embeddings, docs)) ELSE {<< >>}

\* a call of top_k_contexts on the documents docs
Rank(docs, query, k) ==
    /\ result.status = "none"
    /\ \E order \in orders(rag, docs) :
          result' = [status   |-> "ranked",
                     k        |-> k,
                     docs     |-> docs,
                     contexts |-> top_k_contexts(query, docs, k, rag, order)]
    /\ UNCHANGED <<slide, net, translation_cache, previous, slides, qa_logs, rag,
                 db, uploads, requests>>

NextRetrieval ==
    \/ BuildCorpus
    \/ BuildCorpusAgain
    \/ \E query \in Queries, k \in 0..MaxK :
          Rank(build_corpus(slides, qa_logs), query, k)

SpecRetrieval == InitRetrieval /\ [][NextRetrieval]_vars

-----------------------------------------------------------------------------
(* backend/services/ai.py: answer_question                                 *)

\* k of the call top_k_contexts(question_en, docs, k=3)
ContextCount == 3

\* ctx_text[:600]
ContextCut == 600

\* content[:400] of the fallback answer
FallbackCut == 400

\* base_answer[:3000] and fallback_answer[:3000]
MaxAnswerLen == 3000

\* the templates dictionary of _get_answer_templates
templates ==
    [en |->
     [what    |->
        <<"B","a","s","e","d"," ","o","n"," ","s","l","i","d","e"," ","'","{",
          "t","i","t","l","e","}","'",":"," ","{","c","o","n","t","e","n","t",
          "}">>,
      how     |->
        <<"A","c","c","o","r","d","i","n","g"," ","t","o"," ","s","l","i","d",
          "e"," ","'","{","t","i","t","l","e","}","'",","," ","h","e","r","e",
          "'","s"," ","h","o","w"," ","i","t"," ","w","o","r","k","s",":"," ",
          "{","c","o","n","t","e","n","t","}">>,
      why     |->
        <<"S","l","i","d","e"," ","'","{","t","i","t","l","e","}","'"," ","e",
          "x","p","l","a","i","n","s"," ","w","h","y",":"," ","{","c","o","n",
          "t","e","n","t","}">>,
      explain |->
        <<"T","h","i","s"," ","s","l","i","d","e"," ","'","{","t","i","t","l",
          "e","}","'"," ","e","x","p","l","a","i","n","s",":","\n","{","c",
          "o","n","t","e","n","t","}">>,
      general |->
        <<"F","r","o","m"," ","s","l","i","d","e"," ","'","{","t","i","t","l",
          "e","}","'",":","\n","{","c","o","n","t","e","n","t","}">>],
     hi |->
     [what    |->
        <<"u0938","u094D","u0932","u093E","u0907","u0921"," ","'","{","t","i",
          "t","l","e","}","'"," ","u0915","u0947"," ","u0905","u0928","u0941",
          "u0938","u093E","u0930",":"," ","{","c","o","n","t","e","n","t",
          "}">>,
      how     |->
        <<"u0938","u094D","u0932","u093E","u0907","u0921"," ","'","{","t","i",
          "t","l","e","}","'"," ","u0915","u0947"," ","u0905","u0928","u0941",
          "u0938","u093E","u0930",","," ","u092F","u0939"," ","u0915","u0948",
          "u0938","u0947"," ","u0915","u093E","u092E"," ","u0915","u0930",
          "u0924","u093E"," ","u0939","u0948",":"," ","{","c","o","n","t","e",
          "n","t","}">>,
      why     |->
        <<"u0938","u094D","u0932","u093E","u0907","u0921"," ","'","{","t","i",
          "t","l","e","}","'"," ","u092C","u0924","u093E","u0924","u0940"," ",
          "u0939","u0948"," ","u0915","u093F"," ","u0915","u094D","u092F",
          "u094B","u0902",":"," ","{","c","o","n","t","e","n","t","}">>,
      explain |->
        <<"u092F","u0939"," ","u0938","u094D","u0932","u093E","u0907","u0921",
          " ","'","{","t","i","t","l","e","}","'"," ","u0938","u092E","u091D",
          "u093E","u0924","u0940"," ","u0939","u0948",":","\n","{","c","o",
          "n","t","e","n","t","}">>,
      general |->
        <<"u0938","u094D","u0932","u093E","u0907","u0921"," ","'","{","t","i",
          "t","l","e","}","'"," ","u0938","u0947",":","\n","{","c","o","n",
          "t","e","n","t","}">>],
     es |->
     [what    |->
        <<"S","e","g","u00FA","n"," ","l","a"," ","d","i","a","p","o","s","i",
          "t","i","v","a"," ","'","{","t","i","t","l","e","}","'",":"," ","{",
          "c","o","n","t","e","n","t","}">>,
      how     |->
        <<"S","e","g","u00FA","n"," ","l","a"," ","d","i","a","p","o","s","i",
          "t","i","v","a"," ","'","{","t","i","t","l","e","}","'",","," ","a",
          "s","u00ED"," ","e","s"," ","c","o","m","o"," ","f","u","n","c","i",
          "o","n","a",":"," ","{","c","o","n","t","e","n","t","}">>,
      why     |->
        <<"L","a"," ","d","i","a","p","o","s","i","t","i","v","a"," ","'","{",
          "t","i","t","l","e","}","'"," ","e","x","p","l","i","c","a"," ","p",
          "o","r"," ","q","u","u00E9",":"," ","{","c","o","n","t","e","n","t",
          "}">>,
      explain |->
        <<"E","s","t","a"," ","d","i","a","p","o","s","i","t","i","v","a"," ",
          "'","{","t","i","t","l","e","}","'"," ","e","x","p","l","i","c","a",
          ":","\n","{","c","o","n","t","e","n","t","}">>,
      general |->
        <<"D","e"," ","l","a"," ","d","i","a","p","o","s","i","t","i","v","a",
          " ","'","{","t","i","t","l","e","}","'",":","\n","{","c","o","n",
          "t","e","n","t","}">>],
     fr |->
     [what    |->
        <<"S","e","l","o","n"," ","l","a"," ","d","i","a","p","o","s","i","t",
          "i","v","e"," ","'","{","t","i","t","l","e","}","'",":"," ","{","c",
          "o","n","t","e","n","t","}">>,
      how     |->
        <<"S","e","l","o","n"," ","l","a"," ","d","i","a","p","o","s","i","t",
          "i","v","e"," ","'","{","t","i","t","l","e","}","'",","," ","v","o",
          "i","c","i"," ","c","o","m","m","e","n","t"," ","c","e","l","a"," ",
          "f","o","n","c","t","i","o","n","n","e",":"," ","{","c","o","n","t",
          "e","n","t","}">>,
      why     |->
        <<"L","a"," ","d","i","a","p","o","s","i","t","i","v","e"," ","'","{",
          "t","i","t","l","e","}","'"," ","e","x","p","l","i","q","u","e"," ",
          "p","o","u","r","q","u","o","i",":"," ","{","c","o","n","t","e","n",
          "t","}">>,
      explain |->
        <<"C","e","t","t","e"," ","d","i","a","p","o","s","i","t","i","v","e",
          " ","'","{","t","i","t","l","e","}","'"," ","e","x","p","l","i","q",
          "u","e",":","\n","{","c","o","n","t","e","n","t","}">>,
      general |->
        <<"D","e"," ","l","a"," ","d","i","a","p","o","s","i","t","i","v","e",
          " ","'","{","t","i","t","l","e","}","'",":","\n","{","c","o","n",
          "t","e","n","t","}">>],
     de |->
     [what    |->
        <<"B","a","s","i","e","r","e","n","d"," ","a","u","f"," ","F","o","l",
          "i","e"," ","'","{","t","i","t","l","e","}","'",":"," ","{","c","o",
          "n","t","e","n","t","}">>,
      how     |->
        <<"L","a","u","t"," ","F","o","l","i","e"," ","'","{","t","i","t","l",
          "e","}","'"," ","f","u","n","k","t","i","o","n","i","e","r","t"," ",
          "e","s"," ","s","o",":"," ","{","c","o","n","t","e","n","t","}">>,
      why     |->
        <<"F","o","l","i","e"," ","'","{","t","i","t","l","e","}","'"," ","e",
          "r","k","l","u00E4","r","t"," ","w","a","r","u","m",":"," ","{","c",
          "o","n","t","e","n","t","}">>,
      explain |->
        <<"D","i","e","s","e"," ","F","o","l","i","e"," ","'","{","t","i","t",
          "l","e","}","'"," ","e","r","k","l","u00E4","r","t",":","\n","{",
          "c","o","n","t","e","n","t","}">>,
      general |->
        <<"V","o","n"," ","F","o","l","i","e"," ","'","{","t","i","t","l","e",
          "}","'",":","\n","{","c","o","n","t","e","n","t","}">>]]

\* the keys of a template dictionary, in the order of the dictionary
template_keys == <<"what", "how", "why", "explain", "general">>

\* "for key, template in english_templates.items(): translated_templates[key]
\* = translate_text(template, language)", from the i-th key on: t holds the
\* templates translated so far and the cache left
RECURSIVE translate_templates(_, _, _)
translate_templates(t, i, language) ==
    IF i > Len(template_keys) THEN t
    ELSE LET key == template_keys[i]
             tr  == translate_text(t.cache, templates["en"][key], language, "auto")
         IN  translate_templates(
                 [templates |-> [t.templates EXCEPT ![key] = tr.out],
                  cache     |-> tr.cache],
                 i + 1, language)

\* _get_answer_templates(language, tone) run on the cache c: the dictionary
\* returned and the cache it leaves
_get_answer_templates(c, language, tone) ==
    IF language \notin DOMAIN templates
    THEN translate_templates([templates |-> templates["en"], cache |-> c], 1, language)
    ELSE [templates |-> templates[language], cache |-> c]

what_words ==
    { <<"w","h","a","t">>,
      <<"u0915","u094D","u092F","u093E">>,
      <<"q","u","u00E9">>,
      <<"q","u","e">>,
      <<"w","a","s">>,
      <<"q","u","'","e","s","t","-","c","e">> }

how_words ==
    { <<"h","o","w">>,
      <<"u0915","u0948","u0938","u0947">>,
      <<"c","u00F3","m","o">>,
      <<"c","o","m","m","e","n","t">>,
      <<"w","i","e">> }

why_words ==
    { <<"w","h","y">>,
      <<"u0915","u094D","u092F","u094B","u0902">>,
      <<"p","o","r"," ","q","u","u00E9">>,
      <<"p","o","u","r","q","u","o","i">>,
      <<"w","a","r","u","m">> }

explain_words ==
    { <<"e","x","p","l","a","i","n">>,
      <<"d","e","s","c","r","i","b","e">>,
      <<"u0938","u092E","u091D","u093E","u090F","u0902">>,
      <<"u0935","u0930","u094D","u0923","u0928">>,
      <<"e","x","p","l","i","c","a","r">>,
      <<"d","u00E9","c","r","i","r","e">>,
      <<"e","r","k","l","u00E4","r","e","n">> }

\* any(word in question_lower for word in words)
any_word_in(question_lower, words_) == \E word \in words_ : contains(question_lower, word)

\* _classify_question_type with the how keywords tested before the what ones
_classify_question_type_how_first(question) ==
    IF any_word_in(lower(question), how_words) THEN "how"
    ELSE IF any_word_in(lower(question), what_words) THEN "what"
    ELSE IF any_word_in(lower(question), why_words) THEN "why"
    ELSE IF any_word_in(lower(question), explain_words) THEN "explain"
    ELSE "general"

_classify_question_type(question) ==
    IF any_word_in(lower(question), what_words) THEN "what"
    ELSE IF any_word_in(lower(question), how_words) THEN "how"
    ELSE IF any_word_in(lower(question), why_words) THEN "why"
    ELSE IF any_word_in(lower(question), explain_words) THEN "explain"
    ELSE "general"

\* the fallback_templates dictionary of _generate_fallback_answer (f-strings)
fallback_templates(title, content) ==
    [en |-> <<"A","b","o","u","t"," ","'">> \o title
              \o <<"'",":"," ">> \o prefix(content, FallbackCut),
     hi |-> <<"'">> \o title
              \o <<"'"," ","u0915","u0947"," ","u092C","u093E","u0930",
                      "u0947"," ","u092E","u0947","u0902",":"," ">> \o prefix(content, FallbackCut),
     es |-> <<"A","c","e","r","c","a"," ","d","e"," ","'">> \o title
              \o <<"'",":"," ">> \o prefix(content, FallbackCut),
     fr |-> <<"u00C0"," ","p","r","o","p","o","s"," ","d","e"," ","'">> \o title
              \o <<"'",":"," ">> \o prefix(content, FallbackCut),
     de |-> <<"u00DC","b","e","r"," ","'">> \o title
              \o <<"'",":"," ">> \o prefix(content, FallbackCut)]

\* _generate_fallback_answer(title, content, language, tone) run on the cache
\* c: the text returned and the cache it leaves
_generate_fallback_answer(c, title, content, language, tone) ==
    IF language \in DOMAIN fallback_templates(title, content)
    THEN [out |-> fallback_templates(title, content)[language], cache |-> c]
    ELSE translate_text(c, fallback_templates(title, content)["en"], language, "auto")

\* template.format(title=title, content=content).  '{{' and '}}' are literal
\* braces, '{title}' and '{content}' are replaced, any other field raises
\* KeyError or IndexError, a lone brace raises ValueError.  The replaced text
\* is not scanned again.
RECURSIVE format_title_content(_, _, _)
format_title_content(s, title, content) ==
    LET p == first_in(s, {"{", "}"}) IN
    IF p = 0 THEN [raised |-> FALSE, text |-> s]
    ELSE IF p < Len(s) /\ s[p + 1] = s[p]
    THEN LET rest == format_title_content(drop(s, p + 1), title, content) IN
         [raised |-> rest.raised, text |-> SubSeq(s, 1, p) \o rest.text]
    ELSE IF s[p] = "}" THEN [raised |-> TRUE, text |-> << >>]
    ELSE LET after == drop(s, p)
             q     == first_in(after, {"}"})
             field == SubSeq(after, 1, q - 1)
             rest  == format_title_content(drop(after, q), title, content)
             put(v) == [raised |-> rest.raised,
                        text   |-> SubSeq(s, 1, p - 1) \o v \o rest.text]
         IN  IF q = 0 THEN [raised |-> TRUE, text |-> << >>]
             ELSE IF field = <<"t","i","t","l","e">> THEN put(title)
             ELSE IF field = <<"c","o","n","t","e","n","t">> THEN put(content)
             ELSE [raised |-> TRUE, text |-> << >>]

\* "this slide" whatever the title of the slide
title_default(s) ==
    <<"t","h","i","s"," ","s","l","i","d","e">>

\* slide.get("title") or "this slide"
title_or_default(s) ==
    IF s.title # << >> THEN s.title ELSE <<"t","h","i","s"," ","s","l","i","d","e">>

\* "\n---\n".join([c[2] for c in contexts])
ctx_text(contexts) ==
    join(<<"\n", "-", "-", "-", "\n">>, [i \in 1..Len(contexts) |-> contexts[i][3]])

\* lines 369-375: the question in English and the cache left
question_en(c, question) ==
    IF detect_language(question) # "en"
    THEN translate_text(c, question, "en", detect_language(question))
    ELSE [out |-> question, cache |-> c]

\* lines 392-404: the template of the question's category filled in; t is
\* what _get_answer_templates returned
base_answer(t, question_type, title, content) ==
    [raised |-> format_title_content(t.templates[question_type], title, content).raised,
     text   |-> format_title_content(t.templates[question_type], title, content).text,
     cache  |-> t.cache]

\* lines 407-408: the answer translated when the question is not in the
\* language asked for
in_language(b, detected_lang, language) ==
    IF ~b.raised /\ detected_lang # language
    THEN returned(translate_text(b.cache, b.text, language, "en"))
    ELSE b

\* lines 377-410, the body of the try: q is the question in English with the
\* cache left, order what np.argsort gives.  Importing rag raises when a
\* library it needs is missing.
retrieval_answer(q, question, s, slides_, language, tone, qa_logs_, embeddings, order) ==
    IF embeddings.mode = "missing"
    THEN [raised |-> TRUE, text |-> << >>, cache |-> q.cache]
    ELSE in_language(
             base_answer(_get_answer_templates(q.cache, language, tone),
                         _classify_question_type(lower(q.out)),
                         title_or_default(s),
                         prefix(ctx_text(top_k_contexts(q.out,
                                             build_corpus(slides_, qa_logs_),
                                             ContextCount, embeddings, order)),
                                ContextCut)),
             detect_language(question), language)

\* lines 412-420, the except branch: slide.get("content") or "" is the
\* content itself
fallback_answer(c, s, language, tone) ==
    [answer |-> prefix(_generate_fallback_answer(c, title_or_default(s), s.content,
                                                 language, tone).out, MaxAnswerLen),
     cache  |-> _generate_fallback_answer(c, title_or_default(s), s.content,
                                          language, tone).cache,
     path   |-> "fallback"]

\* "return base_answer[:3000]", or the except branch when the try raised
returned_answer(r, s, language, tone) ==
    IF r.raised THEN fallback_answer(r.cache, s, language, tone)
    ELSE [answer |-> prefix(r.text, MaxAnswerLen), cache |-> r.cache, path |-> "retrieval"]

\* answer_question(question, slide, slides, language, tone, qa_logs) run on
\* the cache c: the answer, the cache left, and the return statement taken
answer_question(c, question, s, slides_, language, tone, qa_logs_, embeddings, order) ==
    returned_answer(
        retrieval_answer(question_en(c, question), question, s, slides_, language,
                         tone, qa_logs_, embeddings, order),
        s, language, tone)

-----------------------------------------------------------------------------
(* The answer service: a process starts with an empty translation cache    *)
(* and serves one question on a slide of the stored deck.                  *)

\* n times the character ch
chars(n, ch) == [i \in 1..n |-> ch]

\* the slides asked about: the slide of the end-to-end example, an empty
\* slide, a slide with braces in title and content, a slide whose content is
\* longer than every cut of it, and a slide whose title is as long as the
\* longest answer
AnswerSlides ==
    { [title |-> <<"O","v","e","r","v","i","e","w">>,
       content |-> <<"u2022"," ","F","a","s","t","\n","u2022"," ","R","e","l","i","a","b",
        "l","e">>],
      NoSlide,
      [title |-> <<"{", "x", "}">>, content |-> <<"a", "}", " ", "{", "0", "}">>],
      [title |-> <<"T">>, content |-> chars(ContextCut + 1, "b")],
      [title |-> chars(MaxAnswerLen, "A"), content |-> <<"x">>] }

\* another slide of the deck
OtherSlide == [title |-> <<"Z", "z">>, content |-> <<"z">>]

AnswerLogs == { << >>, <<[question |-> <<"q", "q">>, answer |-> <<"r">>]>> }

\* the retrieval libraries of a run: not installed; the provider down; the
\* provider answering with the same score for every document; with scores
\* rising with the index
AnswerEmbeddings ==
    { RagMode("missing", << >>),
      RagMode("down", << >>),
      RagMode("up", [i \in 1..MaxDocs |-> 1]),
      RagMode("up", [i \in 1..MaxDocs |-> i]) }

\* the questions asked
Questions ==
    { <<"W","h","a","t"," ","i","s"," ","t","h","i","s"," ","a","b","o","u",
        "t","?">>,
      <<"H","o","w","?">>,
      <<"W","H","Y"," ","N","O","W">>,
      <<"E","x","p","l","a","i","n"," ","i","t">>,
      <<"o","k">>,
      <<"T","e","l","l"," ","m","e"," ","m","o","r","e">> }

\* the texts classified: the questions asked, an empty text, texts with the
\* keywords of two categories, a keyword inside a word, and a Hindi keyword
ClassifiedTexts ==
    Questions \cup
    { << >>,
      <<"w","h","a","t"," ","h","o","w">>,
      <<"W","h","y",","," ","a","n","d"," ","h","o","w","?">>,
      <<"r","e","q","u","e","s","t">>,
      <<"u0915","u094D","u092F","u093E">>,
      <<"d","e","s","c","r","i","b","e"," ","w","h","y">> }

InitAnswer ==
    /\ slide \in AnswerSlides
    /\ slides \in {<<slide>>, <<OtherSlide, slide>>}
    /\ qa_logs \in AnswerLogs
    /\ rag \in AnswerEmbeddings
    /\ net \in Nets
    /\ translation_cache = << >>
    /\ result = NoResult
    /\ previous = NoResult
    /\ db = << >>
    /\ uploads = << >>
    /\ requests = << >>

\* a call of answer_question on the slide; fallback is the answer the except
\* branch gives for this slide and language
Ask(question, language, tone) ==
    /\ result.status = "none"
    /\ \E order \in orders(rag, build_corpus(slides, qa_logs)) :
       \E a \in {answer_question(translation_cache, question, slide, slides,
                                 language, tone, qa_logs, rag, order)} :
          /\ result' = [status   |-> "answered",
                        question |-> question,
                        language |-> language,
                        answer   |-> a.answer,
                        path     |-> a.path,
                        fallback |-> fallback_answer(translation_cache, slide,
                                                     language, tone).answer]
          /\ translation_cache' = a.cache
    /\ UNCHANGED <<slide, net, previous, slides, qa_logs, rag,
                 db, uploads, requests>>

\* a call of _classify_question_type
Classify(question) ==
    /\ result.status = "none"
    /\ result' = [status   |-> "classified",
                  question |-> question,
                  type     |-> _classify_question_type(question)]
    /\ UNCHANGED <<slide, net, translation_cache, previous, slides, qa_logs, rag,
                 db, uploads, requests>>

\* the tones asked for (answer_question only hands the tone on)
AnswerTones == {"formal", "humorous"}

NextAnswer ==
    \/ \E question \in Questions, language \in Languages, tone \in AnswerTones :
          Ask(question, language, tone)
    \/ \E question \in ClassifiedTexts : Classify(question)

SpecAnswer == InitAnswer /\ [][NextAnswer]_vars

-----------------------------------------------------------------------------
(* Concurrent calls of translate_text.  The request handlers run on the    *)
(* threads of a pool and share the one TranslationService; a call is       *)
(* followed in three steps: the tests before the providers, the tries of   *)
(* the providers, and the store into the cache.  The providers may fail    *)
(* and recover between any two steps.                                      *)

\* the calls received by a process
MaxCalls == 3

\* the provider after p in the order of preference, or the store
provider_after ==
    [libretranslate |-> "google", google |-> "mymemory", mymemory |-> "store"]

\* the statement after the try of provider p, every provider being contacted
next_statement_every_provider(p, translation) == provider_after[p]

\* the statement after the try of provider p: "if not translation:" leads to
\* the next provider, a translation to the store
next_statement(p, translation) ==
    IF translation # << >> THEN "store" ELSE provider_after[p]

\* the locals of a call that returned value before any provider was asked;
\* detected is the local source_lang after lines 101-102
call_returned(text, target_lang, source_lang, detected, value, hit) ==
    [text |-> text, target_lang |-> target_lang, source_lang |-> source_lang,
     detected |-> detected, pc |-> "done", translation |-> << >>,
     contacted |-> << >>, returned |-> value, hit |-> hit, stored |-> FALSE]

\* the locals of a call on its way to the first provider
call_to_providers(text, target_lang, source_lang, detected) ==
    [text |-> text, target_lang |-> target_lang, source_lang |-> source_lang,
     detected |-> detected, pc |-> "libretranslate", translation |-> << >>,
     contacted |-> << >>, returned |-> << >>, hit |-> FALSE, stored |-> FALSE]

\* translation.py:100-106, the cache missed: the source language detected
\* and compared with the target
translate_detect(text, target_lang, source_lang, detected) ==
    IF detected = target_lang
    THEN call_returned(text, target_lang, source_lang, detected, text, FALSE)
    ELSE call_to_providers(text, target_lang, source_lang, detected)

\* translation.py:92-106: translate_text up to the first provider, on the
\* cache c
translate_start(c, text, target_lang, source_lang) ==
    IF strip(text) = << >>
    THEN call_returned(text, target_lang, source_lang, source_lang, text, FALSE)
    ELSE IF cache_key(text, source_lang, target_lang) \in DOMAIN c
    THEN call_returned(text, target_lang, source_lang, source_lang,
                       c[cache_key(text, source_lang, target_lang)], TRUE)
    ELSE translate_detect(text, target_lang, source_lang,
                          IF source_lang = "auto" THEN detect_language(text)
                          ELSE source_lang)

\* translation.py:112-129, one try: the provider of the call's position is
\* asked and answers r
translate_try(call, r) ==
    [call EXCEPT !.translation = or_provider(call.translation, r),
                 !.contacted   = Append(call.contacted,
                                        [provider |-> call.pc, answer |-> r]),
                 !.pc          = next_statement(call.pc,
                                                or_provider(call.translation, r))]

\* translation.py:108-129: the tries one after the other, from the call's
\* position to the store
RECURSIVE translate_tries(_)
translate_tries(call) ==
    IF call.pc \notin DOMAIN provider_after THEN call
    ELSE translate_tries(
             translate_try(call, provider_call(call.pc, call.text, call.detected,
                                               call.target_lang)))

\* translation.py:132-137: the marker when nothing was translated, the store
\* and the return
translate_store(call) ==
    [call EXCEPT !.pc = "done", !.stored = TRUE,
                 !.returned = or_failure_marker(call.translation, call.text,
                                                call.target_lang)]

\* the calls made: a blank text, a text in the target language and a text
\* to translate
CallArgs ==
    { [text |-> <<" ">>, target_lang |-> "hi", source_lang |-> "auto"],
      [text |-> <<"H", "e", "l", "l", "o", ".">>, target_lang |-> "es",
       source_lang |-> "auto"],
      [text |-> <<"H", "e", "l", "l", "o", ".">>, target_lang |-> "hi",
       source_lang |-> "auto"] }

\* the calls that have returned
Done == {i \in 1..Len(requests) : requests[i].pc = "done"}

InitTranslate ==
    /\ net \in Nets
    /\ translation_cache = << >>
    /\ requests = << >>
    /\ slide = NoSlide
    /\ slides = << >>
    /\ qa_logs = << >>
    /\ rag = RagMode("down", << >>)
    /\ db = << >>
    /\ uploads = << >>
    /\ result = NoResult
    /\ previous = NoResult

\* a thread calls translate_text and runs it up to the first provider; after
\* is the set of the calls that had returned by then
Call(text, target_lang, source_lang) ==
    /\ Len(requests) < MaxCalls
    /\ \E call \in {translate_start(translation_cache, text, target_lang, source_lang)} :
          requests' = Append(requests, [after |-> Done] @@ call)
    /\ UNCHANGED <<slide, net, translation_cache, result, previous, slides, qa_logs,
                   rag, db, uploads>>

\* the call i contacts the providers, as they answer at that time
Contact(i) ==
    /\ requests[i].pc \in Providers
    /\ requests' = [requests EXCEPT ![i] = translate_tries(@)]
    /\ UNCHANGED <<slide, net, translation_cache, result, previous, slides, qa_logs,
                   rag, db, uploads>>

\* the call i stores its translation and returns it
Store(i) ==
    /\ requests[i].pc = "store"
    /\ requests' = [requests EXCEPT ![i] = translate_store(@)]
    /\ translation_cache' =
           cache_and_return(translation_cache,
                            cache_key(requests[i].text, requests[i].source_lang,
                                      requests[i].target_lang),
                            translate_store(requests[i]).returned).cache
    /\ UNCHANGED <<slide, net, result, previous, slides, qa_logs, rag, db, uploads>>

\* providers fail or recover
NetChange ==
    /\ net' \in Nets \ {net}
    /\ UNCHANGED <<slide, translation_cache, result, previous, slides, qa_logs, rag,
                   db, uploads, requests>>

NextTranslate ==
    \/ \E a \in CallArgs : Call(a.text, a.target_lang, a.source_lang)
    \/ \E i \in 1..Len(requests) : Contact(i)
    \/ \E i \in 1..Len(requests) : Store(i)
    \/ NetChange

SpecTranslate == InitTranslate /\ [][NextTranslate]_vars

-----------------------------------------------------------------------------
(* backend/db.py: the three tables of the store and the functions on them. *)
(* Every function opens a connection, runs one statement and commits.      *)

\* the value of a column no value was given for
NULL == <<"NULL">>

\* the store init_db leaves; sqlite_sequence is the largest id AUTOINCREMENT
\* has given to a row of qa_logs
EmptyDb == [presentations |-> {}, slides |-> {}, qa_logs |-> {}, sqlite_sequence |-> 0]

\* INSERT OR REPLACE INTO presentations: the row with this id goes, the new
\* row comes
save_presentation(d, pres_id, filename) ==
    [d EXCEPT !.presentations =
        {p \in @ : p.id # pres_id} \cup {[id |-> pres_id, filename |-> filename]}]

\* the row of slides with the primary key (pres_id, index)
slide_rows(d, pres_id, index) ==
    {r \in d.slides : r.presentation_id = pres_id /\ r.slide_index = index}

\* save_slide numbering the slides from one
save_slide_from_one(d, pres_id, index, s) ==
    [d EXCEPT !.slides =
        (@ \ slide_rows(d, pres_id, index + 1))
        \cup {[presentation_id |-> pres_id, slide_index |-> index + 1,
               title |-> s.title, content |-> s.content,
               narration |-> NULL, audio_path |-> NULL]}]

\* INSERT OR REPLACE INTO slides (presentation_id, slide_index, title,
\* content): the row with this key goes, and the new row has no narration
\* and no audio_path
save_slide(d, pres_id, index, s) ==
    [d EXCEPT !.slides =
        (@ \ slide_rows(d, pres_id, index))
        \cup {[presentation_id |-> pres_id, slide_index |-> index,
               title |-> s.title, content |-> s.content,
               narration |-> NULL, audio_path |-> NULL]}]

\* UPDATE slides SET narration, audio_path WHERE presentation_id AND slide_index
update_slide_audio(d, pres_id, index, narration, audio_path) ==
    [d EXCEPT !.slides =
        {IF r.presentation_id = pres_id /\ r.slide_index = index
         THEN [r EXCEPT !.narration = narration, !.audio_path = audio_path]
         ELSE r : r \in @}]

get_presentation(d, pres_id) ==
    IF \E p \in d.presentations : p.id = pres_id
    THEN CHOOSE p \in d.presentations : p.id = pres_id
    ELSE [id |-> pres_id, filename |-> "unknown"]

\* the rows in the order of the column col (no two rows have the same value)
RECURSIVE order_by(_, _)
order_by(rows, col) ==
    IF rows = {} THEN << >>
    ELSE <<CHOOSE r \in rows : \A q \in rows : r[col] <= q[col]>>
         \o order_by(rows \ {CHOOSE r \in rows : \A q \in rows : r[col] <= q[col]}, col)

\* the dictionary get_slides makes of a row
slide_dict(r) ==
    [index |-> r.slide_index, title |-> r.title, content |-> r.content,
     narration |-> r.narration, audio_path |-> r.audio_path]

\* the rows of a presentation in a table
rows_of(table, pres_id) == {r \in table : r.presentation_id = pres_id}

\* SELECT ... FROM slides WHERE presentation_id = ? ORDER BY slide_index
get_slides(d, pres_id) ==
    [i \in 1..Cardinality(rows_of(d.slides, pres_id)) |->
        slide_dict(order_by(rows_of(d.slides, pres_id), "slide_index")[i])]

\* save_qa_log keeping one record for a slide: the record of the slide goes
save_qa_log_keyed_by_slide(d, pres_id, index, question, answer) ==
    [d EXCEPT !.qa_logs =
                {r \in @ : ~(r.presentation_id = pres_id /\ r.slide_index = index)}
                \cup {[id |-> d.sqlite_sequence + 1, presentation_id |-> pres_id,
                       slide_index |-> index, question |-> question,
                       answer |-> answer]},
              !.sqlite_sequence = @ + 1]

\* INSERT INTO qa_logs: the new row gets an id larger than every id given
save_qa_log(d, pres_id, index, question, answer) ==
    [d EXCEPT !.qa_logs =
                @ \cup {[id |-> d.sqlite_sequence + 1, presentation_id |-> pres_id,
                         slide_index |-> index, question |-> question,
                         answer |-> answer]},
              !.sqlite_sequence = @ + 1]

\* the dictionary get_qa_logs makes of a row
qa_dict(r) == [slide_index |-> r.slide_index, question |-> r.question, answer |-> r.answer]

\* get_qa_logs giving the newest record first
get_qa_logs_newest_first(d, pres_id) ==
    [i \in 1..Cardinality(rows_of(d.qa_logs, pres_id)) |->
        qa_dict(order_by(rows_of(d.qa_logs, pres_id), "id")
                    [Cardinality(rows_of(d.qa_logs, pres_id)) + 1 - i])]

\* SELECT ... FROM qa_logs WHERE presentation_id = ? ORDER BY id
get_qa_logs(d, pres_id) ==
    [i \in 1..Cardinality(rows_of(d.qa_logs, pres_id)) |->
        qa_dict(order_by(rows_of(d.qa_logs, pres_id), "id")[i])]

-----------------------------------------------------------------------------
(* backend/main.py and backend/routes: the request handlers on the store.  *)
(* The handlers run on the threads of a pool; a request is followed        *)
(* statement by statement, one step for each call into backend/db.py, and  *)
(* the steps of different requests interleave.                             *)

\* the requests received by a process
MaxRequests == 2

\* s.startswith(p)
startswith(s, p) == Len(p) <= Len(s) /\ SubSeq(s, 1, Len(p)) = p

\* s.endswith(p)
ends_with(s, p) == Len(p) <= Len(s) /\ SubSeq(s, Len(s) - Len(p) + 1, Len(s)) = p

\* file.filename.lower().endswith((".pptx", ".ppt"))
supported(filename) ==
    \/ ends_with(lower(filename), <<".", "p", "p", "t", "x">>)
    \/ ends_with(lower(filename), <<".", "p", "p", "t">>)

\* the name of the file an upload is written to
dest_path(pres_id, filename) == pres_id \o <<"_">> \o filename

\* what parse_presentation reads from the file f: title and content of
\* every slide, in slide order
parse_presentation(f) == [i \in 1..Len(f.slides) |-> [title |-> f.slides[i].title,
                                                      content |-> f.slides[i].content]]

\* [f for f in os.listdir(upload_dir) if f.startswith(presentation_id)]
original_files(files, presentation_id) ==
    {f \in files : startswith(f.name, presentation_id)}

\* raise HTTPException(status_code, detail), or the answer to an exception
\* no handler catches
HTTPException(status_code, detail) ==
    [status_code |-> status_code, detail |-> detail, body |-> << >>]

\* the answer of a handler that returned body
OK(body) == [status_code |-> 200, detail |-> "", body |-> body]

NoResponse == [status_code |-> 0, detail |-> "", body |-> << >>]

\* the locals of a request as it arrives: the slides and qa_logs read, the
\* counter of the loop over the slides, the index of the slide handed to
\* generate_slide_narration or answer_question, and narration_text; log_id
\* is the id of the row of qa_logs the request inserted
request(kind, presentation_id, slide_index, question) ==
    [kind |-> kind, presentation_id |-> presentation_id,
     slide_index |-> slide_index, question |-> question,
     pc |-> "start", slides |-> << >>, qa_logs |-> << >>, idx |-> 0,
     slide |-> NULL, narration_text |-> << >>, log_id |-> 0,
     response |-> NoResponse]

\* the request r answered
responded(r, response) == [r EXCEPT !.pc = "done", !.response = response]

\* slides[i] of Python for an index inside the list, from the end for a
\* negative one
item(slides_, i) == IF i >= 0 THEN slides_[i + 1] ELSE slides_[Len(slides_) + i + 1]

\* slides[i] raises IndexError
IndexError(slides_, i) == i >= Len(slides_) \/ i < 0 - Len(slides_)

\* narrate_slide from generate_slide_narration on: n is its outcome for the
\* slide sl; an exception of it is answered with status 500
narrate_from(r, sl, n) ==
    IF n.status = "raised"
    THEN responded([r EXCEPT !.slide = sl.index], HTTPException(500, "Internal Server Error"))
    ELSE [r EXCEPT !.slide = sl.index, !.narration_text = n.full_text,
                   !.pc = "update_slide_audio"]

\* narrate_slide from "slide = slides[req.slide_index]" on
narrate_item(r, slides_) ==
    IF IndexError(slides_, r.slide_index)
    THEN responded([r EXCEPT !.slides = slides_],
                   HTTPException(500, "Internal Server Error"))
    ELSE narrate_from([r EXCEPT !.slides = slides_], item(slides_, r.slide_index),
                      generate_slide_narration(<< >>, item(slides_, r.slide_index),
                                               "formal", "en"))

\* narrate_slide of backend/main.py up to synthesize_speech
narrate_slide(r, slides_) ==
    IF r.slide_index < 0 \/ r.slide_index >= Len(slides_)
    THEN responded([r EXCEPT !.slides = slides_], HTTPException(404, "Slide not found"))
    ELSE narrate_item(r, slides_)

\* narrate_slide of backend/routes/narration.py up to synthesize_speech
narrate_slide_routes(r, slides_) ==
    IF r.slide_index >= Len(slides_)
    THEN responded([r EXCEPT !.slides = slides_], HTTPException(404, "Slide not found"))
    ELSE narrate_item(r, slides_)

\* qa up to get_qa_logs
qa(r, slides_) ==
    IF r.slide_index < 0 \/ r.slide_index >= Len(slides_)
    THEN responded([r EXCEPT !.slides = slides_], HTTPException(404, "Slide not found"))
    ELSE [r EXCEPT !.slides = slides_, !.slide = r.slide_index, !.pc = "get_qa_logs"]

\* the loop "for idx, slide in enumerate(slides)" of a request that parsed
\* slides_data: entered, or left at once and the request answered
save_slides(r, slides_data) ==
    IF slides_data = << >>
    THEN responded(r, OK(<<0>>))
    ELSE [r EXCEPT !.slides = slides_data, !.idx = 0, !.pc = "save_slide"]

\* the request after save_slide for slides[idx]
saved_slide(r) ==
    IF r.idx + 1 = Len(r.slides)
    THEN responded([r EXCEPT !.idx = @ + 1], OK(<<Len(r.slides)>>))
    ELSE [r EXCEPT !.idx = @ + 1]

\* the request after get_qa_logs: summary returns, qa goes on
got_qa_logs(r, qa_logs_) ==
    IF r.kind = "summary"
    THEN responded([r EXCEPT !.qa_logs = qa_logs_],
                   OK(<<Len(r.slides), Len(qa_logs_)>>))
    ELSE [r EXCEPT !.qa_logs = qa_logs_, !.pc = "save_qa_log"]

-----------------------------------------------------------------------------
(* The application: a process whose store holds one ingested presentation  *)
(* and one answered question serves uploads, regenerations, narrations,    *)
(* questions and summaries.                                                *)
(* The narrations and answers are in English, the embedding provider and   *)
(* the translation providers are down.                                     *)

\* the ids uuid4 gives, in the order it gives them
PresentationIds == << <<"p", "1">>, <<"p", "2">> >>

\* the presentation ingested before the first request and the one uploaded
FirstDeck ==
    << [title |-> <<"A", "a">>, content |-> <<"a", "a", ".">>],
       [title |-> <<"B", "b">>, content |-> <<"u2022", " ", "b">>] >>

SecondDeck ==
    << [title |-> <<"C", "c">>, content |-> <<"c", ".">>],
       [title |-> <<"D", "d">>, content |-> << >>] >>

FirstFile == [filename |-> <<"a", ".", "p", "p", "t", "x">>, slides |-> FirstDeck]

\* the files sent to /upload: a presentation and a text file
UploadFiles ==
    { [filename |-> <<"b", ".", "P", "P", "T">>, slides |-> SecondDeck],
      [filename |-> <<"b", ".", "t", "x", "t">>, slides |-> << >>] }

\* the presentation ids of the requests: the two ids and a prefix of both
RequestIds == { PresentationIds[1], PresentationIds[2] }

RegenerateIds == RequestIds \cup { <<"p">> }

\* the slide indices of the requests
SlideIndices == {-1, 0, 2}

\* the questions of the requests
StoreQuestions == { <<"H", "o", "w", "?">>, <<" ", "o", "k", " ">> }

\* the ids uuid4 has given
ids_given(files) ==
    {k \in 1..Len(PresentationIds) :
        \E f \in files : startswith(f.name, PresentationIds[k])}

\* the file an upload of f under pres_id leaves in the upload directory
stored_file(pres_id, f) == [name |-> dest_path(pres_id, f.filename), slides |-> f.slides]

\* the store after the ingestion of the deck f under pres_id
RECURSIVE ingested(_, _, _, _)
ingested(d, pres_id, slides_data, idx) ==
    IF idx >= Len(slides_data) THEN d
    ELSE ingested(save_slide(d, pres_id, idx, slides_data[idx + 1]), pres_id,
                  slides_data, idx + 1)

\* the question answered before the first request, on the first slide
FirstQuestion == <<"W", "h", "y", "?">>

\* the store after a qa request on slide 0 of pres_id with the question, no
\* other request running
asked(d, pres_id, question) ==
    save_qa_log(d, pres_id, 0, question,
                answer_question(<< >>, question, get_slides(d, pres_id)[1],
                                get_slides(d, pres_id), "en", "formal",
                                get_qa_logs(d, pres_id), RagMode("down", << >>),
                                << >>).answer)

InitStore ==
    /\ net = NetDown
    /\ rag = RagMode("down", << >>)
    /\ translation_cache = << >>
    /\ db = asked(ingested(save_presentation(EmptyDb, PresentationIds[1],
                                             FirstFile.filename),
                           PresentationIds[1], parse_presentation(FirstFile), 0),
                  PresentationIds[1], FirstQuestion)
    /\ uploads = {stored_file(PresentationIds[1], FirstFile)}
    /\ requests = << >>
    /\ slide = NoSlide
    /\ slides = << >>
    /\ qa_logs = << >>
    /\ result = NoResult
    /\ previous = NoResult

\* the request r arrives and runs up to its first statement on the store;
\* after is the set of requests answered before it arrived
Receive(r) ==
    /\ Len(requests) < MaxRequests
    /\ requests' = Append(requests, [after |-> Done] @@ r)

\* upload_presentation up to the loop over the slides
Upload(file) ==
    /\ ids_given(uploads) # 1..Len(PresentationIds)
    /\ IF supported(file.filename)
       THEN \E k \in {Cardinality(ids_given(uploads)) + 1} :
               /\ uploads' = uploads \cup {stored_file(PresentationIds[k], file)}
               /\ db' = save_presentation(db, PresentationIds[k], file.filename)
               /\ Receive(save_slides(request("upload", PresentationIds[k], 0, << >>),
                                      parse_presentation(file)))
       ELSE /\ Receive(responded(request("upload", << >>, 0, << >>),
                                 HTTPException(400, "Only .pptx or .ppt files are supported")))
            /\ UNCHANGED <<db, uploads>>
    /\ UNCHANGED <<slide, net, translation_cache, result, previous, slides, qa_logs, rag>>

\* regenerate_slides up to the loop over the slides: os.listdir gives the
\* files in any order, and HTTPException(404) is caught and answered as 500
Regenerate(presentation_id) ==
    /\ IF original_files(uploads, presentation_id) = {}
       THEN Receive(responded(request("regenerate", presentation_id, 0, << >>),
                              HTTPException(500, "Regeneration failed")))
       ELSE \E f \in original_files(uploads, presentation_id) :
               Receive(save_slides(request("regenerate", presentation_id, 0, << >>),
                                   parse_presentation(f)))
    /\ UNCHANGED <<slide, net, translation_cache, result, previous, slides, qa_logs, rag,
                   db, uploads>>

\* one turn of the loop of an upload or a regeneration, and the answer after
\* the last turn
SaveSlide(i) ==
    /\ requests[i].pc = "save_slide"
    /\ db' = save_slide(db, requests[i].presentation_id, requests[i].idx,
                        requests[i].slides[requests[i].idx + 1])
    /\ requests' = [requests EXCEPT ![i] = saved_slide(@)]
    /\ UNCHANGED <<slide, net, translation_cache, result, previous, slides, qa_logs, rag,
                   uploads>>

\* narrate_slide of backend/main.py up to synthesize_speech
NarrateMain(presentation_id, slide_index) ==
    /\ Receive(narrate_slide(request("narrate", presentation_id, slide_index, << >>),
                             get_slides(db, presentation_id)))
    /\ UNCHANGED <<slide, net, translation_cache, result, previous, slides, qa_logs, rag,
                   db, uploads>>

\* narrate_slide of backend/routes/narration.py up to synthesize_speech
NarrateRoutes(presentation_id, slide_index) ==
    /\ Receive(narrate_slide_routes(request("narrate", presentation_id, slide_index, << >>),
                                    get_slides(db, presentation_id)))
    /\ UNCHANGED <<slide, net, translation_cache, result, previous, slides, qa_logs, rag,
                   db, uploads>>

\* synthesize_speech writing the audio file of request i, update_slide_audio
\* and the answer
UpdateSlideAudio(i) ==
    /\ requests[i].pc = "update_slide_audio"
    /\ db' = update_slide_audio(db, requests[i].presentation_id, requests[i].slide_index,
                                requests[i].narration_text, <<"tts", i>>)
    /\ requests' = [requests EXCEPT ![i] = responded(@, OK(@.narration_text))]
    /\ UNCHANGED <<slide, net, translation_cache, result, previous, slides, qa_logs, rag,
                   uploads>>

\* qa up to get_qa_logs
Qa(presentation_id, slide_index, question) ==
    /\ Receive(qa(request("qa", presentation_id, slide_index, question),
                  get_slides(db, presentation_id)))
    /\ UNCHANGED <<slide, net, translation_cache, result, previous, slides, qa_logs, rag,
                   db, uploads>>

\* summary up to get_qa_logs
Summary(presentation_id) ==
    /\ Receive([request("summary", presentation_id, 0, << >>)
                   EXCEPT !.slides = get_slides(db, presentation_id),
                          !.pc = "get_qa_logs"])
    /\ UNCHANGED <<slide, net, translation_cache, result, previous, slides, qa_logs, rag,
                   db, uploads>>

\* get_qa_logs of a qa or a summary
GetQaLogs(i) ==
    /\ requests[i].pc = "get_qa_logs"
    /\ requests' = [requests EXCEPT
                       ![i] = got_qa_logs(@, get_qa_logs(db, @.presentation_id))]
    /\ UNCHANGED <<slide, net, translation_cache, result, previous, slides, qa_logs, rag,
                   db, uploads>>

\* answer_question, save_qa_log and the answer of a qa
SaveQaLog(i) ==
    /\ requests[i].pc = "save_qa_log"
    /\ \E order \in orders(rag, build_corpus(requests[i].slides, requests[i].qa_logs)) :
       \E a \in {answer_question(translation_cache, requests[i].question,
                                 item(requests[i].slides, requests[i].slide_index),
                                 requests[i].slides, "en", "formal",
                                 requests[i].qa_logs, rag, order)} :
          /\ db' = save_qa_log(db, requests[i].presentation_id, requests[i].slide_index,
                               requests[i].question, a.answer)
          /\ requests' = [requests EXCEPT
                             ![i] = responded([@ EXCEPT !.log_id = db.sqlite_sequence + 1],
                                              OK(a.answer))]
          /\ translation_cache' = a.cache
    /\ UNCHANGED <<slide, net, result, previous, slides, qa_logs, rag, uploads>>

NextStore ==
    \/ \E file \in UploadFiles : Upload(file)
    \/ \E presentation_id \in RegenerateIds : Regenerate(presentation_id)
    \/ \E presentation_id \in RequestIds, slide_index \in SlideIndices :
          NarrateMain(presentation_id, slide_index)
    \/ \E presentation_id \in RequestIds, slide_index \in SlideIndices :
          NarrateRoutes(presentation_id, slide_index)
    \/ \E presentation_id \in RequestIds, slide_index \in SlideIndices,
          question \in StoreQuestions : Qa(presentation_id, slide_index, question)
    \/ \E presentation_id \in RequestIds : Summary(presentation_id)
    \/ \E i \in 1..Len(requests) : SaveSlide(i)
    \/ \E i \in 1..Len(requests) : UpdateSlideAudio(i)
    \/ \E i \in 1..Len(requests) : GetQaLogs(i)
    \/ \E i \in 1..Len(requests) : SaveQaLog(i)

SpecStore == InitStore /\ [][NextStore]_vars

-----------------------------------------------------------------------------
(* Properties of the narration pipeline.                                   *)

\* the call has returned its dictionary
Returned == result.status = "ok"

\* the call has analysed the slide (it returned, or raised while narrating)
Analysed == result.status \in {"ok", "raised"}

\* The content the analysis split into lines: the stored content, or for a
\* language other than English what translate_text made of it (the cached
\* translation; the content itself when it was taken to be in the language).
AnalysedContent ==
    LET content0 == strip(slide.content) IN
    IF result.language = "en" \/ content0 = << >> THEN content0
    ELSE LET key == cache_key(content0, "auto", result.language) IN
         IF key \in DOMAIN translation_cache THEN translation_cache[key] ELSE content0

\* its non-empty lines, trimmed
AnalysedLines == stripped_lines(split_newline(AnalysedContent))

\* one second and the rate of the language of the call, as the claims give them
ClaimedWpm ==
    CASE result.language = "hi" -> 140
      [] result.language = "es" -> 160
      [] OTHER                  -> 150

ClaimedSecond == 10 * ClaimedWpm

\* the pause of a kind of part in tenths of a second, as the claims give it
ClaimedPause(type) ==
    CASE type = "title"     -> 10
      [] type = "heading"   -> 5
      [] type = "bullet"    -> 3
      [] type = "list"      -> 4
      [] type = "paragraph" -> 0

RECURSIVE SumOfDurations(_)
SumOfDurations(segs) ==
    IF segs = << >> THEN 0 ELSE Head(segs).duration + SumOfDurations(Tail(segs))

\* a is a subsequence of b
RECURSIVE IsSubsequence(_, _)
IsSubsequence(a, b) ==
    IF a = << >> THEN TRUE
    ELSE IF b = << >> THEN FALSE
    ELSE IF Head(a) = Head(b) THEN IsSubsequence(Tail(a), Tail(b))
    ELSE IsSubsequence(a, Tail(b))

\* the elements of a sequence
Range(seq) == {seq[i] : i \in 1..Len(seq)}

\* C1: the segments of a narration form a gap-free, non-overlapping timeline:
\* the first starts at 0, each next one starts where the one before ends,
\* end_time = start_time + duration for every segment, and the durations add
\* up to the end_time of the last segment.
C1_GapFreeTimeline ==
    Returned =>
        LET s == result.segments IN
        /\ Len(s) > 0 => s[1].start_time = 0
        /\ \A i \in 1..Len(s) : s[i].end_time = s[i].start_time + s[i].duration
        /\ \A i \in 1..(Len(s) - 1) : s[i + 1].start_time = s[i].end_time
        /\ Len(s) > 0 => SumOfDurations(s) = s[Len(s)].end_time

\* a narration of three or more segments in a language other than English
C1_Witness ==
    /\ Returned
    /\ result.language # "en"
    /\ Len(result.segments) >= 3

\* the kind and source element of every element of a slide structure, in the
\* order title (if non-empty), headings, bullets, numbered items, paragraphs
ElementsInOrder(st) ==
    LET kind(type, elements) ==
            [i \in 1..Len(elements) |-> [type |-> type, element |-> elements[i], index |-> i]]
    IN  (IF st.title # << >> THEN kind("title", <<st.title>>) ELSE << >>)
        \o kind("heading", st.headings) \o kind("bullet", st.bullet_points)
        \o kind("list", st.lists) \o kind("paragraph", st.paragraphs)

\* the call returned one segment per element of the structure, in that order,
\* each with the kind and source element of its part, bullets and numbered
\* items carrying their 1-based position within their kind
OneSegmentPerElement ==
    LET e == ElementsInOrder(result.slide_structure)
        s == result.segments
        p == result.narration_parts
    IN  /\ Len(s) = Len(e)
        /\ Len(p) = Len(e)
        /\ \A i \in 1..Len(e) :
              /\ s[i].type = e[i].type
              /\ s[i].highlight_text = e[i].element
              /\ s[i].text = p[i].text
              /\ p[i].type = e[i].type
              /\ p[i].element = e[i].element
              /\ e[i].type \in {"bullet", "list"} => p[i].index = e[i].index

\* C2: generate_slide_narration produces exactly one segment per slide
\* element, in the order title (if non-empty), headings, bullets, numbered
\* items, paragraphs, with 1-based ordinals for bullets and numbered items,
\* each segment keeping the kind and source element of its part.
C2_OneSegmentPerElement ==
    result.status # "none" => (Returned /\ OneSegmentPerElement)

\* C3: start times begin at 0 and are strictly increasing from one segment to
\* the next.
C3_StrictlyIncreasingStarts ==
    (Returned /\ Len(result.segments) >= 1) =>
        LET s == result.segments IN
        /\ s[1].start_time = 0
        /\ \A i \in 1..(Len(s) - 1) : s[i].start_time < s[i + 1].start_time

\* a title and three bullets: four segments
C3_Witness ==
    /\ Returned
    /\ Len(result.segments) = 4
    /\ result.segments[1].type = "title"
    /\ \A i \in 2..4 : result.segments[i].type = "bullet"

\* C4 as claimed: for every part with at least one word, the duration is
\* word_count * (60 / wpm) plus the pause of its kind.
C4_DurationIsRatePlusPause ==
    Returned =>
        \A i \in 1..Len(result.segments) :
            LET seg == result.segments[i] IN
            word_count(seg.text) >= 1 =>
                seg.duration = word_count(seg.text) * 600 + ClaimedPause(seg.type) * ClaimedWpm

\* C4 as amended: for every part, the duration is the larger of one second
\* and word_count * (60 / wpm), plus the pause of its kind; an unlisted
\* language has the rate 150.
C4_DurationIsFlooredRatePlusPause ==
    Returned =>
        \A i \in 1..Len(result.segments) :
            LET seg    == result.segments[i]
                spoken_ == word_count(seg.text) * 600
            IN  seg.duration =
                    (IF spoken_ > ClaimedSecond THEN spoken_ ELSE ClaimedSecond)
                    + ClaimedPause(seg.type) * ClaimedWpm

\* a narration in a listed language other than English with a part spoken in
\* less than a second and a part spoken in more
C4_Witness ==
    /\ Returned
    /\ result.language = "hi"
    /\ \E i \in 1..Len(result.segments) :
          /\ word_count(result.segments[i].text) >= 1
          /\ word_count(result.segments[i].text) * 600 < ClaimedSecond
    /\ \E i \in 1..Len(result.segments) :
          word_count(result.segments[i].text) * 600 > ClaimedSecond

\* C5: a part with zero words yields a segment of at least one second, and
\* every segment has a duration above 0.
C5_NoZeroLengthSegment ==
    Returned =>
        \A i \in 1..Len(result.segments) :
            LET seg == result.segments[i] IN
            /\ seg.duration > 0
            /\ word_count(seg.text) = 0 => seg.duration >= ClaimedSecond

\* a narration with a part of zero words that is not a title
C5_Witness ==
    /\ Returned
    /\ \E i \in 1..Len(result.segments) :
          /\ word_count(result.segments[i].text) = 0
          /\ result.segments[i].type # "title"

-----------------------------------------------------------------------------
(* Properties of the classification of the lines.                          *)

\* the line begins with a bullet glyph
BeginsWithGlyph(line) == line[1] \in {"u2022", "-", "*", "u25E6", "u25AA", "u25AB"}

\* the text of a line after its glyph prefix and the blanks that follow it
\* (empty when the line is made of glyphs and blanks only)
TextAfterGlyphs(line) ==
    LET glyphs == {"u2022", "-", "*", "u25E6", "u25AA", "u25AB", " ", "\t", "\n"} IN
    IF \A i \in 1..Len(line) : line[i] \in glyphs THEN << >>
    ELSE SubSeq(line,
                CHOOSE i \in 1..Len(line) :
                    /\ line[i] \notin glyphs
                    /\ \A j \in 1..(i - 1) : line[j] \in glyphs,
                Len(line))

\* the line is digits, then '.' or ')', then blanks, then text
HasNumericPrefix(line) ==
    \E d \in 1..(Len(line) - 3) :
        /\ \A j \in 1..d : line[j] \in Digit
        /\ line[d + 1] \in {".", ")"}
        /\ line[d + 2] \in White

\* the text after the numeric prefix and its blanks
TextAfterNumericPrefix(line) ==
    LET d == CHOOSE d \in 1..(Len(line) - 3) :
                 /\ \A j \in 1..d : line[j] \in Digit
                 /\ line[d + 1] \in {".", ")"}
                 /\ line[d + 2] \in White
        k == CHOOSE k \in (d + 3)..Len(line) :
                 /\ line[k] \notin White
                 /\ \A j \in (d + 2)..(k - 1) : line[j] \in White
    IN  SubSeq(line, k, Len(line))

\* the lines of a sequence that satisfy Test, each mapped by Text
Picked(lines, Test(_), Text(_)) ==
    LET kept == SelectSeq(lines, Test) IN
    [i \in 1..Len(kept) |-> Text(kept[i])]

Same(line) == line

IsNumberedLine(line) == ~BeginsWithGlyph(line) /\ HasNumericPrefix(line)

IsBulletLine(line) == BeginsWithGlyph(line) /\ TextAfterGlyphs(line) # << >>

IsGlyphOnlyLine(line) == BeginsWithGlyph(line) /\ TextAfterGlyphs(line) = << >>

\* the line fits none of the rules for bullets, numbered items and headings
FitsNoRule(line) ==
    /\ ~BeginsWithGlyph(line)
    /\ ~HasNumericPrefix(line)
    /\ ~(Len(line) < 80 /\ (isupper(line) \/ istitle(line)))
    /\ (word_count(line) > 8 \/ line[Len(line)] \in {".", ":"})

ClassifiedCount ==
    LET st == result.slide_structure IN
    Len(st.bullet_points) + Len(st.headings) + Len(st.lists) + Len(st.paragraphs)

\* C6: every line without a bullet glyph that has a numeric prefix is a
\* numbered item, stored without the prefix, whatever its capitalization or
\* length: the numbered items are exactly those lines, in line order.
C6_NumberedBeforeHeading ==
    Analysed =>
        result.slide_structure.lists
            = Picked(AnalysedLines, IsNumberedLine, TextAfterNumericPrefix)

\* C7: every line that begins with a bullet glyph and has text after the
\* glyph prefix is a bullet, stored without the prefix and the blanks after
\* it, and is in no other list: those texts are among the bullets in line
\* order, and the other three lists hold no more elements than there are
\* lines without a glyph.
C7_GlyphLinesAreBullets ==
    Analysed =>
        LET st == result.slide_structure IN
        /\ IsSubsequence(Picked(AnalysedLines, IsBulletLine, TextAfterGlyphs),
                         st.bullet_points)
        /\ Len(st.headings) + Len(st.lists) + Len(st.paragraphs)
               <= Cardinality({i \in 1..Len(AnalysedLines) :
                                  ~BeginsWithGlyph(AnalysedLines[i])})

\* a slide with a line of two glyphs before its text, stored as a bullet
C7_Witness ==
    /\ Analysed
    /\ \E i \in 1..Len(AnalysedLines) :
          /\ IsBulletLine(AnalysedLines[i])
          /\ BeginsWithGlyph(Tail(AnalysedLines[i]))
          /\ TextAfterGlyphs(AnalysedLines[i]) \in Range(result.slide_structure.bullet_points)

\* C8 as claimed: every non-empty trimmed line is in exactly one of the four
\* lists, so the lists hold as many elements as there are non-empty lines.
C8_EveryLineClassified ==
    Analysed => ClassifiedCount = Len(AnalysedLines)

\* C8 as amended: the lists hold as many elements as there are non-empty
\* lines that are not made of bullet glyphs and blanks only (such a line is in
\* no list), the paragraphs are exactly the lines that fit no rule, and every
\* other line is in one of the lists (as it is, or without its prefix).
C8_EveryLineButGlyphOnlyClassified ==
    Analysed =>
        /\ ClassifiedCount
               = Len(AnalysedLines)
                 - Cardinality({i \in 1..Len(AnalysedLines) :
                                   IsGlyphOnlyLine(AnalysedLines[i])})
        /\ result.slide_structure.paragraphs = Picked(AnalysedLines, FitsNoRule, Same)
        /\ \A i \in 1..Len(AnalysedLines) :
              LET line == AnalysedLines[i]
                  st   == result.slide_structure
              IN  IsGlyphOnlyLine(line)
                  \/ line \in Range(st.headings) \cup Range(st.paragraphs)
                  \/ TextAfterGlyphs(line) \in Range(st.bullet_points)
                  \/ (HasNumericPrefix(line)
                      /\ TextAfterNumericPrefix(line) \in Range(st.lists))

\* a slide with a glyph-only line and a paragraph
C8_Witness ==
    /\ Analysed
    /\ \E i \in 1..Len(AnalysedLines) : IsGlyphOnlyLine(AnalysedLines[i])
    /\ Len(result.slide_structure.paragraphs) >= 1

\* C9: no line of 80 or more characters is a heading; a line of 80 or more
\* characters that ends in a period and has neither a bullet glyph nor a
\* numeric prefix is a paragraph.
C9_LongLineNeverHeading ==
    Analysed =>
        LET st == result.slide_structure IN
        /\ \A i \in 1..Len(st.headings) : Len(st.headings[i]) < 80
        /\ \A i \in 1..Len(AnalysedLines) :
              LET line == AnalysedLines[i] IN
              (/\ Len(line) >= 80
               /\ line[Len(line)] = "."
               /\ ~BeginsWithGlyph(line)
               /\ ~HasNumericPrefix(line)) => line \in Range(st.paragraphs)

\* a slide with a title-case line of 90 characters that ends in a period
C9_Witness ==
    /\ Analysed
    /\ \E i \in 1..Len(AnalysedLines) :
          LET line == AnalysedLines[i] IN
          /\ Len(line) >= 90
          /\ istitle(line)
          /\ line[Len(line)] = "."
          /\ line \in Range(result.slide_structure.paragraphs)

\* C10: full_text is the texts of the parts in part order, joined by single
\* spaces and cut to its first 3000 characters; it is never longer than 3000.
C10_FullTextIsCutJoin ==
    Returned =>
        LET p      == result.narration_parts
            joined == join(<<" ">>, [i \in 1..Len(p) |-> p[i].text])
        IN  /\ Len(result.full_text) <= 3000
            /\ result.full_text = IF Len(joined) <= 3000 THEN joined
                                  ELSE SubSeq(joined, 1, 3000)

\* a narration of two parts whose joined texts are longer than 3000 characters
C10_Witness ==
    /\ Returned
    /\ Len(result.narration_parts) >= 2
    /\ Len(result.narration_parts[1].text) > 3000
    /\ Len(result.full_text) = 3000

-----------------------------------------------------------------------------
(* Properties of repeated narration calls.                                 *)

\* the same call has been made twice
CalledTwice == previous.status \in {"ok", "raised"}

\* C11: two calls of generate_slide_narration with the same slide, tone and
\* language, the providers answering the same way, have the same outcome:
\* the second returns exactly when the first did, with the same full_text and
\* the same segments, also when the first call filled the translation cache
\* and the second is served from it.
C11_SameCallSameNarration ==
    CalledTwice =>
        /\ result.status = previous.status
        /\ result.status = "ok" =>
              /\ result.full_text = previous.full_text
              /\ result.segments = previous.segments

\* both calls returned, and the second found the translations of the first in
\* the cache (a language other than English, and a provider that translates)
C11_Witness ==
    /\ CalledTwice
    /\ result.status = "ok"
    /\ Len(result.segments) >= 2
    /\ result.language = "hi"
    /\ net.mymemory = "up"
    /\ DOMAIN translation_cache # {}

\* C12: for every slide, a slide with empty title and content included, every
\* tone and every language, the full_text that generate_slide_narration
\* returns is not empty.
C12_FullTextNotEmpty ==
    Returned => Len(result.full_text) > 0

-----------------------------------------------------------------------------
(* Properties of the retrieval functions.                                  *)

\* top_k_contexts has returned
Ranked == result.status = "ranked"

\* build_corpus has returned
CorpusBuilt == result.status = "corpus"

Min(a, b) == IF a <= b THEN a ELSE b

\* the text holds a character that is not white space
NotBlank(text) == \E i \in 1..Len(text) : text[i] \notin {" ", "\t", "\n"}

\* C17: top_k_contexts returns at most min(k, len(docs)) results, their scores
\* never rise from one result to the next, the text of each result is the
\* document at its index, and an empty document list gives an empty list.
C17_AtMostKByFallingScore ==
    Ranked =>
        LET c == result.contexts
            d == result.docs
        IN  /\ Len(c) <= Min(result.k, Len(d))
            /\ \A i, j \in 1..Len(c) : i < j => c[i][2] >= c[j][2]
            /\ \A i \in 1..Len(c) :
                  /\ c[i][1] \in 0..(Len(d) - 1)
                  /\ c[i][3] = d[c[i][1] + 1]
            /\ Len(d) = 0 => Len(c) = 0

\* the provider answered, k cut the list, and the scores returned differ
C17_Witness ==
    /\ Ranked
    /\ rag.mode = "up"
    /\ Len(result.docs) > result.k
    /\ Len(result.contexts) = 2
    /\ result.contexts[1][2] > result.contexts[2][2]

\* C18: documents with the same score are ranked by ascending index: of two
\* results with the same score the one with the lower index comes first, and
\* a document left out by k has no lower index than a result of its score.
C18_TiesByAscendingIndex ==
    (Ranked /\ rag.mode = "up") =>
        LET c == result.contexts
            d == result.docs
            s == sims_of(rag, d)
        IN  /\ \A i, j \in 1..Len(c) :
                  (i < j /\ c[i][2] = c[j][2]) => c[i][1] < c[j][1]
            /\ \A i \in 1..Len(c) : \A n \in 1..Len(d) :
                  (s[n] = c[i][2] /\ \A j \in 1..Len(c) : c[j][1] # n - 1)
                      => n - 1 > c[i][1]

\* C19: when the embedding provider or the similarity computation raises,
\* top_k_contexts returns the first k documents in corpus order, each with
\* its own index and the score 0.0.
C19_FirstKWhenProviderRaises ==
    (Ranked /\ rag.mode = "down") =>
        LET c == result.contexts
            d == result.docs
        IN  /\ Len(c) = Min(result.k, Len(d))
            /\ \A i \in 1..Len(c) : c[i] = <<i - 1, 0, d[i]>>

\* the provider raised and k cut a list of three documents to two
C19_Witness ==
    /\ Ranked
    /\ rag.mode = "down"
    /\ Len(result.docs) = 3
    /\ result.k = 2
    /\ Len(result.contexts) = 2

\* the slides and Q&A records that count, by the test given
CountSlides(Kept(_)) ==
    Cardinality({i \in 1..Len(slides) :
                    Kept(slides[i].title) \/ Kept(slides[i].content)})

CountRecords(Kept(_)) ==
    Cardinality({i \in 1..Len(qa_logs) :
                    Kept(qa_logs[i].question) \/ Kept(qa_logs[i].answer)})

NotEmpty(text) == Len(text) > 0

\* the documents come from the slides in slide order and then from the Q&A
\* records in log order: there is a rising choice of slides and of records
\* that the documents are the texts of
InSlideThenLogOrder(docs) ==
    \E n \in 0..Len(docs) :
        /\ \E pick \in [1..n -> 1..Len(slides)] :
              /\ \A i, j \in 1..n : i < j => pick[i] < pick[j]
              /\ \A i \in 1..n :
                    docs[i] = strip(slides[pick[i]].title) \o <<"\n">>
                                  \o strip(slides[pick[i]].content)
        /\ \E pick \in [1..(Len(docs) - n) -> 1..Len(qa_logs)] :
              /\ \A i, j \in 1..(Len(docs) - n) : i < j => pick[i] < pick[j]
              /\ \A i \in 1..(Len(docs) - n) :
                    docs[n + i] = <<"Q", ":", " ">> \o strip(qa_logs[pick[i]].question)
                                      \o <<"\n", "A", ":", " ">>
                                      \o strip(qa_logs[pick[i]].answer)

\* C20 as claimed: build_corpus returns one document for every slide whose
\* title or content is not the empty string and one for every Q&A record
\* whose question or answer is not the empty string.
C20_OneDocumentPerNonEmptyEntry ==
    CorpusBuilt =>
        Len(result.docs) = CountSlides(NotEmpty) + CountRecords(NotEmpty)

\* C20 as amended: build_corpus returns one document for every slide whose
\* title or content holds more than white space and one for every Q&A record
\* whose question or answer does, the slide documents first in slide order
\* and then the Q&A documents in log order, and a second call on the same
\* input returns the same sequence.
C20_OneDocumentPerNonBlankEntry ==
    CorpusBuilt =>
        /\ Len(result.docs) = CountSlides(NotBlank) + CountRecords(NotBlank)
        /\ InSlideThenLogOrder(result.docs)
        /\ previous.status = "corpus" => result.docs = previous.docs

\* build_corpus was called twice on a blank slide, a slide with text and a
\* Q&A record, and returned two documents
C20_Witness ==
    /\ CorpusBuilt
    /\ previous.status = "corpus"
    /\ Len(slides) = 2
    /\ ~NotBlank(slides[1].title) /\ NotEmpty(slides[1].title)
    /\ NotBlank(slides[2].title)
    /\ Len(qa_logs) = 1
    /\ Len(result.docs) = 2

-----------------------------------------------------------------------------
(* Properties of the answer service.                                       *)

\* answer_question has returned
Answered == result.status = "answered"

\* _classify_question_type has returned
Classified == result.status = "classified"

\* C13: answer_question always returns a non-empty string, whether the
\* retrieval path succeeds or the fallback path is taken.
C13_AnswerNotEmpty == Answered => Len(result.answer) > 0

\* an answer in a language without built-in templates, all providers down,
\* on an empty slide with an empty corpus
C13_Witness ==
    /\ Answered
    /\ result.language = "xx"
    /\ net = NetDown
    /\ slide = NoSlide
    /\ build_corpus(slides, qa_logs) = << >>
    /\ result.path = "retrieval"

\* C14 as claimed: for the answer language "en" and a slide with a non-empty
\* title, the answer contains the title, on both paths.
C14_AnswerContainsTitle ==
    (Answered /\ result.language = "en" /\ slide.title # << >>)
        => contains(result.answer, slide.title)

\* the longest title that the cut of the answer keeps whole on both paths:
\* the longest text before the title in an English template is
\* "According to slide '"
TitleRoom == MaxAnswerLen - Len(<<"A","c","c","o","r","d","i","n","g"," ","t","o"," ",
                                  "s","l","i","d","e"," ","'">>)

\* C14 as amended: for the answer language "en" and a slide with a non-empty
\* title that the cut to 3000 characters leaves room for, the answer
\* contains the title, on both paths; for a longer title the answer contains
\* the part of the title that fits.
C14_AnswerContainsTitleThatFits ==
    (Answered /\ result.language = "en" /\ slide.title # << >>)
        => /\ Len(slide.title) <= TitleRoom => contains(result.answer, slide.title)
           /\ Len(slide.title) > TitleRoom =>
                  contains(result.answer, prefix(slide.title, TitleRoom))

\* the example of the specification answered on the retrieval path, and the
\* same on the fallback path
C14_Witness ==
    /\ Answered
    /\ result.language = "en"
    /\ slide.title = <<"O","v","e","r","v","i","e","w">>
    /\ result.question = <<"W","h","a","t"," ","i","s"," ","t","h","i","s"," ",
                           "a","b","o","u","t","?">>
    /\ result.path = "retrieval"
    /\ contains(result.answer, slide.title)

\* no provider translates the text from the language source_lang
NoTranslation(text, source_lang, target_lang) ==
    /\ source_lang # target_lang
    /\ strip(text) # << >>
    /\ providers_translation(text, source_lang, target_lang) = << >>

\* C15: if translating the question, building or ranking the corpus, filling
\* the template or translating the answer fails, answer_question returns the
\* fallback answer built from the title and the first 400 characters of the
\* content of the slide.  (The question is translated from the language
\* detected when that is not English.)
C15_FailureGivesFallback ==
    (/\ Answered
     /\ \/ result.path = "fallback"
        \/ NoTranslation(result.question, detect_language(result.question), "en"))
        => result.answer = result.fallback

\* some keyword of the set occurs in the question, upper or lower case
Occurs(question, words_) ==
    \E word \in words_ :
        \E i \in 1..(Len(question) - Len(word) + 1) :
            \A j \in 1..Len(word) :
                \/ question[i + j - 1] = word[j]
                \/ \E n \in 1..Len(LowerSeq) :
                      question[i + j - 1] = UpperSeq[n] /\ word[j] = LowerSeq[n]

\* C16: _classify_question_type returns the first category, in the order
\* what, how, why, explain, that has a keyword occurring in the question
\* whatever the case of its letters, and "general" exactly when no keyword
\* occurs.
C16_FirstCategoryWithKeyword ==
    Classified =>
        LET q == result.question IN
        /\ result.type \in {"what", "how", "why", "explain", "general"}
        /\ result.type = "what" <=> Occurs(q, what_words)
        /\ result.type = "how" <=> (~Occurs(q, what_words) /\ Occurs(q, how_words))
        /\ result.type = "why" <=>
              (/\ ~Occurs(q, what_words) /\ ~Occurs(q, how_words)
               /\ Occurs(q, why_words))
        /\ result.type = "explain" <=>
              (/\ ~Occurs(q, what_words) /\ ~Occurs(q, how_words)
               /\ ~Occurs(q, why_words) /\ Occurs(q, explain_words))
        /\ result.type = "general" <=>
              ~Occurs(q, what_words \cup how_words \cup why_words \cup explain_words)

\* a question with keywords of two categories, one in upper case
C16_Witness ==
    /\ Classified
    /\ Occurs(result.question, how_words)
    /\ Occurs(result.question, why_words)
    /\ ~contains(result.question, <<"w","h","y">>)
    /\ result.type = "how"

-----------------------------------------------------------------------------
(* Properties of the narration of texts with braces.                       *)

\* C28: generate_slide_narration never raises because of the characters of
\* the slide text, braces and format fields included: it returns, and every
\* part it renders without a translation holds the text of its element
\* unchanged.
C28_BracesNarratedUnchanged ==
    Analysed =>
        /\ Returned
        /\ result.language = "en" =>
              \A i \in 1..Len(result.narration_parts) :
                  contains(result.narration_parts[i].text,
                           result.narration_parts[i].element)

-----------------------------------------------------------------------------
(* Properties of translate_text and of its cache.                          *)

\* the order of preference of the providers
ProviderOrder == <<"libretranslate", "google", "mymemory">>

\* the provider answered with a text that is not empty
Answered_(a) == ~a.answer.raised /\ a.answer.text # << >>

\* the source language of the call, given or detected, is its target language
SameLanguage(c) == c.detected = c.target_lang

\* the calls i and j have the same arguments
SameArguments(i, j) ==
    /\ requests[i].text = requests[j].text
    /\ requests[i].source_lang = requests[j].source_lang
    /\ requests[i].target_lang = requests[j].target_lang

\* C23: a call of translate_text that is not served from the cache returns
\* the input unchanged, without contacting a provider, when the text is
\* blank or the source language is the target language; otherwise it
\* contacts the providers in the order LibreTranslate, Google, MyMemory, each
\* at most once and one only if all before it failed or answered nothing,
\* and returns the first answer that is not empty, or the marker
\* "[target] text" when all three failed.
C23_FirstProviderResultOrMarker ==
    \A i \in Done :
        LET c == requests[i]
            n == Len(c.contacted)
        IN  ~c.hit =>
              IF strip(c.text) = << >> \/ SameLanguage(c)
              THEN c.returned = c.text /\ n = 0
              ELSE /\ n \in 1..Len(ProviderOrder)
                   /\ \A k \in 1..n : c.contacted[k].provider = ProviderOrder[k]
                   /\ \A k \in 1..(n - 1) : ~Answered_(c.contacted[k])
                   /\ IF Answered_(c.contacted[n])
                      THEN c.returned = c.contacted[n].answer.text
                      ELSE /\ n = Len(ProviderOrder)
                           /\ c.returned = <<"[">> \o lang_chars[c.target_lang]
                                               \o <<"]", " ">> \o c.text

\* a call that the first provider failed, the second answered with an empty
\* text and the third translated; and a call that found all three failing
C23_Witness ==
    /\ \E i \in Done :
          /\ Len(requests[i].contacted) = 3
          /\ requests[i].contacted[1].answer.raised
          /\ requests[i].contacted[2].answer.text = << >>
          /\ requests[i].returned = requests[i].contacted[3].answer.text
          /\ requests[i].returned # << >>
    /\ \E i \in Done :
          /\ Len(requests[i].contacted) = 3
          /\ requests[i].returned[1] = "["

\* C24: all calls of translate_text with the same text, source and target
\* return the same translation, and all values written to the cache under
\* their key are equal, however the calls interleave.
C24_SameArgumentsSameValue ==
    \A i, j \in Done :
        SameArguments(i, j) => requests[i].returned = requests[j].returned

\* C30: once a call has stored a value for (text, source, target), every
\* call made later with these arguments returns that value and contacts no
\* provider.
C30_FirstStoredValueForEver ==
    \A j \in Done : \A i \in requests[j].after :
        (SameArguments(i, j) /\ requests[i].stored) =>
            /\ requests[j].contacted = << >>
            /\ requests[j].returned = requests[i].returned

-----------------------------------------------------------------------------
(* Properties of the request handlers on the store.                        *)

\* the slide_index of request r is out of range for the slides it read
OutOfRange(r) == r.slide_index < 0 \/ r.slide_index >= Len(r.slides)

\* C21: a narrate or qa request whose slide_index is out of range for the
\* presentation (negative, or not below the number of slides) is answered
\* with "Slide not found", and no slide is narrated or asked about in its
\* place.
C21_OutOfRangeIsSlideNotFound ==
    \A i \in 1..Len(requests) :
        requests[i].kind \in {"narrate", "qa"} /\ OutOfRange(requests[i]) =>
            /\ requests[i].pc = "done"
            /\ requests[i].response = HTTPException(404, "Slide not found")
            /\ requests[i].slide = NULL

\* the qa requests answered with an answer
AnsweredQa == {i \in Done : requests[i].kind = "qa" /\ requests[i].response.status_code = 200}

\* the record a qa request is to leave in the log
RecordOf(r) == [slide_index |-> r.slide_index, question |-> r.question,
                answer |-> r.response.body]

\* request i is a qa request that is answered with an answer in this step
AnswersNow(i) ==
    /\ requests'[i].kind = "qa"
    /\ requests'[i].response.status_code = 200
    /\ i <= Len(requests) => requests[i].pc # "done"

\* the presentations with rows in the store
StoredIds == {r.presentation_id : r \in db.slides \cup db.qa_logs}

\* C22: the Q&A log is append-only and ordered by creation: a qa request
\* answered with an answer appends exactly one record with its
\* presentation_id, slide_index, question and returned answer at the end of
\* what get_qa_logs returns for the presentation, and no other step changes
\* what get_qa_logs returns or a row of the log.
C22_QaLogAppendOnly ==
    [][/\ db.qa_logs \subseteq db'.qa_logs
       /\ \A pid \in StoredIds \cup RequestIds :
             IF \E i \in 1..Len(requests') :
                    AnswersNow(i) /\ requests'[i].presentation_id = pid
             THEN \E i \in 1..Len(requests') :
                     /\ AnswersNow(i)
                     /\ requests'[i].presentation_id = pid
                     /\ get_qa_logs(db', pid)
                            = Append(get_qa_logs(db, pid), RecordOf(requests'[i]))
             ELSE get_qa_logs(db', pid) = get_qa_logs(db, pid)]_vars

\* two qa requests were answered one after the other
C22_Witness ==
    \E i, j \in AnsweredQa :
        /\ i \in requests[j].after
        /\ Len(get_qa_logs(db, requests[j].presentation_id)) = 3

\* C29: under any interleaving of qa requests every answered request has
\* appended exactly one record: the log has one row for every answered
\* request beside the rows it began with, and the row of every answered
\* request is in it.
C29_OneRecordPerAnsweredRequest ==
    /\ Cardinality(db.qa_logs) = 1 + Cardinality(AnsweredQa)
    /\ \A i \in AnsweredQa :
          \E r \in db.qa_logs :
              /\ r.id = requests[i].log_id
              /\ r.presentation_id = requests[i].presentation_id
              /\ qa_dict(r) = RecordOf(requests[i])
    /\ \A i, j \in AnsweredQa : i # j => requests[i].log_id # requests[j].log_id

\* two qa requests on the same slide ran at the same time and were answered
C29_Witness ==
    \E i, j \in AnsweredQa :
        /\ i < j
        /\ i \notin requests[j].after
        /\ requests[i].slide_index = requests[j].slide_index
        /\ requests[i].qa_logs = requests[j].qa_logs

\* the slide indices stored for presentation pid
StoredIndices(pid) == {r.slide_index : r \in rows_of(db.slides, pid)}

\* C25: in every state of the store, between the save_slide calls of an
\* upload and after a regeneration too, the slide indices of a presentation
\* are exactly 0..n-1 for its n stored slides.
C25_SlideIndicesDense ==
    \A pid \in StoredIds \cup RequestIds :
        /\ StoredIndices(pid) = 0..(Cardinality(rows_of(db.slides, pid)) - 1)
        /\ \A k \in 1..Len(get_slides(db, pid)) : get_slides(db, pid)[k].index = k - 1

\* an upload is between two save_slide calls after a regeneration ended
C25_Witness ==
    /\ \E i \in 1..Len(requests) :
          /\ requests[i].kind = "upload"
          /\ requests[i].pc = "save_slide"
          /\ requests[i].idx = 1
          /\ Cardinality(rows_of(db.slides, requests[i].presentation_id)) = 1
    /\ \E j \in Done : requests[j].kind = "regenerate" /\ requests[j].response.status_code = 200

\* request i is a narrate request on the row r that stores its narration in
\* this step
NarratesNow(i, r) ==
    /\ requests[i].kind = "narrate"
    /\ requests[i].pc = "update_slide_audio"
    /\ requests'[i].pc = "done"
    /\ requests[i].presentation_id = r.presentation_id
    /\ requests[i].slide_index = r.slide_index

\* C26: after ingestion the only change to a stored slide is the update of
\* narration and audio_path by a narrate request on that slide: no step
\* deletes a slide or changes its title or content, and no other step
\* changes or clears its narration.
C26_OnlyNarrateChangesSlide ==
    [][\A r \in db.slides :
          \E q \in slide_rows(db', r.presentation_id, r.slide_index) :
              /\ q.title = r.title
              /\ q.content = r.content
              /\ \/ q.narration = r.narration /\ q.audio_path = r.audio_path
                 \/ \E i \in 1..Len(requests) : NarratesNow(i, r)]_vars

\* request j is a qa request that has read the log
ReadLog(j) ==
    /\ requests[j].kind = "qa"
    /\ requests[j].pc = "save_qa_log" \/ j \in AnsweredQa

\* the corpus of the qa request j
Corpus(j) == build_corpus(requests[j].slides, requests[j].qa_logs)

\* the qa requests answered on the presentation of request j before it came
EarlierQa(j) ==
    {i \in AnsweredQa \cap requests[j].after :
        requests[i].presentation_id = requests[j].presentation_id}

\* the place of the record of the answered request i in the log of its
\* presentation
LogPosition(i) ==
    Cardinality({r \in rows_of(db.qa_logs, requests[i].presentation_id) :
                    r.id <= requests[i].log_id})

\* the place the pair of request i has in the corpus of request j, the slide
\* documents first and the pairs in log order
CorpusPosition(i, j) == Len(slide_docs(requests[j].slides)) + LogPosition(i)

\* "Q: <question>\nA: <answer>" of the answered request i
PairDocument(i) ==
    <<"Q", ":", " ">> \o requests[i].question
        \o <<"\n", "A", ":", " ">> \o requests[i].response.body

\* the same of the question and answer without the whitespace around them
StrippedPairDocument(i) ==
    <<"Q", ":", " ">> \o strip(requests[i].question)
        \o <<"\n", "A", ":", " ">> \o strip(requests[i].response.body)

\* the pair of a request is not in its own corpus: the log it read ends
\* before its own record
OwnPairNotInCorpus(j) == j \in AnsweredQa => Len(requests[j].qa_logs) < LogPosition(j)

\* C27 as stated: the pair of an answered qa request is the document
\* "Q: <question>\nA: <answer>" in the corpus of every later qa request on
\* the presentation, after the slide documents and in log order, and never
\* in the corpus of the request itself.
C27_EarlierPairsInCorpus ==
    \A j \in 1..Len(requests) :
        ReadLog(j) =>
            /\ OwnPairNotInCorpus(j)
            /\ \A i \in EarlierQa(j) :
                  /\ CorpusPosition(i, j) <= Len(Corpus(j))
                  /\ Corpus(j)[CorpusPosition(i, j)] = PairDocument(i)

\* C27, amended: the document is made of the question and the answer with
\* the whitespace around them stripped.
C27_EarlierStrippedPairsInCorpus ==
    \A j \in 1..Len(requests) :
        ReadLog(j) =>
            /\ OwnPairNotInCorpus(j)
            /\ \A i \in EarlierQa(j) :
                  /\ CorpusPosition(i, j) <= Len(Corpus(j))
                  /\ Corpus(j)[CorpusPosition(i, j)] = StrippedPairDocument(i)

\* a qa request was answered after another one whose question has blanks
\* around it, and its corpus has the pairs of two requests
C27_Witness ==
    \E j \in AnsweredQa :
        \E i \in EarlierQa(j) :
            /\ strip(requests[i].question) # requests[i].question
            /\ Len(Corpus(j)) = Len(slide_docs(requests[j].slides)) + 2
=============================================================================
